---- MODULE Spec2Model ----
(***************************************************************************)
(* A model of threshold-zk-LHE: the algebra crate (prime fields, Barrett   *)
(* and Shoup reduction, the negacyclic NTT and its table cache) and the    *)
(* bfv crate (BFV encryption, linear evaluation, threshold PKE).           *)
(*                                                                         *)
(* Machine words are kept at their width.  A value that fits a signed      *)
(* 32-bit integer is an integer; a word or double word that may not fit is *)
(* a little-endian sequence of 16-bit limbs.                               *)
(***************************************************************************)
EXTENDS Integers, Sequences, FiniteSets, TLC

\* ------------------------------------------------------------------------
\* Program constants
\* ------------------------------------------------------------------------
MODULUS == 132120577
PlainModulus == 61
DIMENSION_N == 1024
MAX_NODES_NUMBER == 20
WordBits == 32
PlainBits == 16

TWICE_MODULUS_INNER == 2 * MODULUS

\* ------------------------------------------------------------------------
\* Bounds of the model
\* ------------------------------------------------------------------------
\* the largest log_n of the transforms that are run
MaxLogN == 2
\* the root search samples its candidates from 2..MaxCandidate
MaxCandidate == 10
\* the ring dimension of the scheme runs is 2^LogDim
LogDim == 1

\* ------------------------------------------------------------------------
\* Words as limbs
\* ------------------------------------------------------------------------
Limb == 2 ^ (WordBits \div 2)

\* The word holding the non-negative integer x.
Word(x) == <<x % Limb, x \div Limb>>

\* The integer held by the word l (it must fit).
Val(l) == l[1] + l[2] * Limb

\* TLC evaluates an argument or a LET definition where it is first used.
\* Now(x) uses x at once, so that a long computation is not begun in the
\* middle of another one.
Now(x) == x = x

\* x * y for two limbs, as <<high limb, low limb>>: with y = 256 yh + yl,
\* x * y = 256 (x * yh) + x * yl.
Mul16(x, y) ==
    <<(x * (y \div 256) + (x * (y % 256)) \div 256) \div 256,
      (256 * ((x * (y \div 256)) % 256) + x * (y % 256)) % Limb>>

\* a * b as a double word, for two words a and b
WideFromParts(p0, p1, p2, p3) ==
    LET s1 == p0[1] + p1[2] + p2[2]
        s2 == p1[1] + p2[1] + p3[2] + (s1 \div Limb)
    IN  <<p0[2], s1 % Limb, s2 % Limb, (p3[1] + (s2 \div Limb)) % Limb>>

WideMul(a, b) ==
    WideFromParts(Mul16(a[1], b[1]), Mul16(a[2], b[1]),
                  Mul16(a[1], b[2]), Mul16(a[2], b[2]))

\* x + y modulo 2^(2 * WordBits), for two double words
WideAdd(x, y) ==
    LET s1 == x[1] + y[1]
        s2 == x[2] + y[2] + (s1 \div Limb)
        s3 == x[3] + y[3] + (s2 \div Limb)
        s4 == x[4] + y[4] + (s3 \div Limb)
    IN  <<s1 % Limb, s2 % Limb, s3 % Limb, s4 % Limb>>

\* x >> WordBits, for a double word
WideShr(x) == <<x[3], x[4], 0, 0>>

\* x as Self: the low word of a double word
LowWord(x) == <<x[1], x[2]>>

\* (low word, high word) of a * b
SplitWide(wide) == <<LowWord(wide), LowWord(WideShr(wide))>>

widen_mul(a, b) == SplitWide(WideMul(a, b))

\* a * b modulo 2^WordBits
LowFromParts(p0, p1, p2) == <<p0[2], (p0[1] + p1[2] + p2[2]) % Limb>>

wrapping_mul(a, b) ==
    LowFromParts(Mul16(a[1], b[1]), Mul16(a[2], b[1]), Mul16(a[1], b[2]))

\* a - b modulo 2^WordBits
wrapping_sub(a, b) ==
    LET d1 == a[1] - b[1]
        d2 == a[2] - b[2] - (IF d1 < 0 THEN 1 ELSE 0)
    IN  <<(d1 + Limb) % Limb, (d2 + Limb) % Limb>>

\* four more bits of the long division: prev is <<quotient, remainder>>
ShiftStep(prev, d) ==
    <<16 * prev[1] + ((16 * prev[2]) \div d), (16 * prev[2]) % d>>

\* <<quotient, remainder>> of (v * 2^(WordBits / 2)) by d, for v < d < 2^27
ShiftDiv(v, d) ==
    LET s1 == ShiftStep(<<v \div d, v % d>>, d)
        s2 == ShiftStep(s1, d)
        s3 == ShiftStep(s2, d)
    IN  CASE Now(s1) /\ Now(s2) /\ Now(s3) -> ShiftStep(s3, d)

\* <<the word floor(hi * 2^WordBits / divisor), remainder>>, for hi < divisor
div_wide(hi, divisor) ==
    LET top == ShiftDiv(hi, divisor)
        bot == ShiftDiv(top[2], divisor)
    IN  CASE Now(top) /\ Now(bot) -> <<(<<bot[1], top[1]>>), bot[2]>>

\* ------------------------------------------------------------------------
\* Barrett modulus
\* ------------------------------------------------------------------------
\* ratio = floor(2^(2*WordBits) / value) as [ratio[0], ratio[1]]
BarrettModulus(value) ==
    LET hi == div_wide(1, value)
        lo == div_wide(hi[2], value)
    IN  CASE Now(hi) /\ Now(lo) -> [value |-> value, ratio |-> <<lo[1], hi[1]>>]

\* (lo, hi).lazy_reduce(modulus): a word in [0, 2 * modulus)
lazy_reduce(self, modulus) ==
    LET ratio == modulus.ratio
        a == WideMul(ratio[1], self[1])
        b_plus_a_left == WideAdd(WideMul(ratio[2], self[1]), WideShr(a))
        c == WideMul(ratio[1], self[2])
        d == WideMul(ratio[2], self[2])
        tmp == LowWord(WideAdd(d, WideShr(WideAdd(b_plus_a_left, c))))
    IN  CASE Now(self) /\ Now(a) /\ Now(b_plus_a_left) /\ Now(c) /\ Now(d)
             /\ Now(tmp) ->
            Val(wrapping_sub(self[1], wrapping_mul(tmp, Word(modulus.value))))

\* if r >= modulus { r - modulus } else { r }
ConditionalSub(r, m) == IF r >= m THEN r - m ELSE r

reduce(self, modulus) ==
    ConditionalSub(lazy_reduce(self, modulus), modulus.value)

mul_reduce(x, y, modulus) == reduce(widen_mul(Word(x), Word(y)), modulus)

\* self.lazy_reduce(modulus) for a single word self (a pair of limbs)
lazy_reduce_word(self, modulus) ==
    LET ratio == modulus.ratio
        tmp1 == WideShr(WideMul(self, ratio[1]))
        q3 == LowWord(WideShr(WideAdd(WideMul(self, ratio[2]), tmp1)))
    IN  CASE Now(self) /\ Now(tmp1) /\ Now(q3) ->
            Val(wrapping_sub(self, wrapping_mul(q3, Word(modulus.value))))

reduce_word(self, modulus) ==
    ConditionalSub(lazy_reduce_word(self, modulus), modulus.value)

\* ------------------------------------------------------------------------
\* Barrett modulus over u8 (WideType u16)
\* ------------------------------------------------------------------------
ByteBits == 8

Byte == 2 ^ ByteBits

HalfByte == 2 ^ (ByteBits \div 2)

\* div_half for u8: <<quotient, remainder>>
div_half_u8(rem, divisor) ==
    LET hi == (rem * HalfByte) \div divisor
        r1 == (rem * HalfByte) % divisor
        lo == (r1 * HalfByte) \div divisor
        r2 == (r1 * HalfByte) % divisor
    IN  <<hi * HalfByte + lo, r2>>

\* div_wide for u8
div_wide_u8(hi, divisor) == <<((hi * Byte) \div divisor) % Byte, (hi * Byte) % divisor>>

\* BarrettModulus::<u8>::new; Panic when value is 0, 1 or has more than
\* BITS - 2 bits
BarrettModulusU8(value) ==
    IF value \in {0, 1} \/ value >= 2 ^ (ByteBits - 2) THEN [kind |-> "Panic"]
    ELSE LET hi == IF value <= HalfByte - 1 THEN div_half_u8(1, value)
                   ELSE div_wide_u8(1, value)
             lo == IF value <= HalfByte - 1 THEN div_half_u8(hi[2], value)
                   ELSE div_wide_u8(hi[2], value)
         IN  [kind |-> "Ok", value |-> value, ratio |-> <<lo[1], hi[1]>>]

\* u8: self.lazy_reduce(modulus)
lazy_reduce_u8(self, modulus) ==
    LET tmp1 == (self * modulus.ratio[1]) \div Byte
        q3 == ((self * modulus.ratio[2] + tmp1) \div Byte) % Byte
    IN  (self - q3 * modulus.value) % Byte

\* a double-word lazy_reduce that leaves value[1] * ratio[0] out of q3
lazy_reduce_pair_u8_without_c(self, modulus) ==
    LET ratio == modulus.ratio
        a == ratio[1] * self[1]
        b_plus_a_left == ratio[2] * self[1] + (a \div Byte)
        d == ratio[2] * self[2]
        tmp == ((d + (b_plus_a_left \div Byte)) % (Byte * Byte)) % Byte
    IN  (self[1] - tmp * modulus.value) % Byte

\* [u8; 2]: self.lazy_reduce(modulus), or -1 when a sum of the wide type
\* overflows
lazy_reduce_pair_u8(self, modulus) ==
    LET ratio == modulus.ratio
        a == ratio[1] * self[1]
        b_plus_a_left == ratio[2] * self[1] + (a \div Byte)
        c == ratio[1] * self[2]
        d == ratio[2] * self[2]
        tmp == ((d + ((b_plus_a_left + c) \div Byte)) % (Byte * Byte)) % Byte
    IN  IF b_plus_a_left >= Byte * Byte \/ b_plus_a_left + c >= Byte * Byte
        THEN -1
        ELSE (self[1] - tmp * modulus.value) % Byte

lazy_mul_reduce(x, y, modulus) == lazy_reduce(widen_mul(Word(x), Word(y)), modulus)

add_reduce(x, y, m) == IF x + y >= m THEN x + y - m ELSE x + y

sub_reduce(x, y, m) == IF x >= y THEN x - y ELSE m - y + x

neg_reduce(x, m) == IF x = 0 THEN 0 ELSE m - x

\* the number of trailing zero bits of the word e < 2^(WordBits - 1)
trailing_zeros(e) ==
    IF e = 0 THEN WordBits
    ELSE CHOOSE k \in 0..(WordBits - 2) :
             e % (2 ^ k) = 0 /\ (e \div (2 ^ k)) % 2 = 1

\* N_BITS - e.leading_zeros(), for 0 < e < 2^(WordBits - 1)
bit_length(e) == CHOOSE k \in 1..(WordBits - 1) : e \div (2 ^ (k - 1)) = 1

RECURSIVE Squarings(_, _, _)
\* the last `rest` squarings, once the first ones have given mid
SquaringsRest(mid, rest, modulus) ==
    IF mid >= 0 THEN Squarings(mid, rest, modulus) ELSE mid

\* for _ in 0..count { power = power.mul_reduce(power, modulus) }; the
\* iterations are run as two halves so that the evaluation stays shallow
Squarings(power, count, modulus) ==
    IF count = 0 THEN power
    ELSE IF count = 1 THEN mul_reduce(power, power, modulus)
    ELSE SquaringsRest(Squarings(power, count \div 2, modulus),
                       count - count \div 2, modulus)

\* if exp & 1 != 0 { intermediate = intermediate.mul_reduce(power, modulus) }
PowMul(p1, intermediate, e1, modulus) ==
    [power |-> p1,
     intermediate |-> IF e1 % 2 = 1 THEN mul_reduce(intermediate, p1, modulus)
                      ELSE intermediate,
     exp |-> e1]

\* exp >>= 1; power = power.mul_reduce(power, modulus); ...
PowBody(st, modulus) ==
    PowMul(mul_reduce(st.power, st.power, modulus), st.intermediate,
           st.exp \div 2, modulus)

RECURSIVE PowLoop(_, _, _)
PowRest(mid, rest, modulus) ==
    IF mid.exp >= 0 THEN PowLoop(mid, rest, modulus) ELSE mid

\* `passes` passes of for _ in 1..(E::N_BITS - exp.leading_zeros()), run as
\* two halves
PowLoop(st, passes, modulus) ==
    IF passes = 1 THEN PowBody(st, modulus)
    ELSE PowRest(PowLoop(st, passes \div 2, modulus),
                 passes - passes \div 2, modulus)

PowFrom(power, e, modulus) ==
    IF Now(power) /\ e = 1 THEN power
    ELSE PowLoop([power |-> power, intermediate |-> power, exp |-> e],
                 bit_length(e) - 1, modulus).intermediate

pow_reduce(self, exp, modulus) ==
    IF exp = 0 THEN 1
    ELSE PowFrom(Squarings(self, trailing_zeros(exp), modulus),
                 exp \div (2 ^ trailing_zeros(exp)), modulus)

\* ------------------------------------------------------------------------
\* Vectors: a Rust slice v[0..n) is the sequence <<v[0], ..., v[n-1]>>
\* ------------------------------------------------------------------------
At(v, i) == v[i + 1]

\* The vector of length n whose element i is Elem(i); built eagerly.
Vec(n, Elem(_)) == [i \in 1..n |-> Elem(i - 1)] \o <<>>

\* ------------------------------------------------------------------------
\* Inversion: binary extended GCD
\* ------------------------------------------------------------------------
\* the body of while u % 2 == 0 { ... }
HalveUBody(st, x, y) ==
    IF st.a % 2 = 0 /\ st.b % 2 = 0
    THEN [st EXCEPT !.u = st.u \div 2, !.a = st.a \div 2, !.b = st.b \div 2]
    ELSE IF st.b > x
    THEN [st EXCEPT !.u = st.u \div 2, !.a = (st.a + y) \div 2,
                    !.b = (st.b - x) \div 2]
    ELSE [st EXCEPT !.u = st.u \div 2, !.a = (st.a - y) \div 2,
                    !.b = (st.b + x) \div 2]

RECURSIVE HalveULoop(_, _, _, _)
HalveURest(mid, x, y, rest) ==
    IF mid.u >= 0 THEN HalveULoop(mid, x, y, rest) ELSE mid

\* `passes` passes of the while loop, run as two halves
HalveULoop(st, x, y, passes) ==
    IF passes = 1 THEN HalveUBody(st, x, y)
    ELSE HalveURest(HalveULoop(st, x, y, passes \div 2), x, y,
                    passes - passes \div 2)

\* while u % 2 == 0 { ... }, for u > 0: one pass for each trailing zero
HalveU(st, x, y) ==
    IF st.u % 2 # 0 THEN st ELSE HalveULoop(st, x, y, trailing_zeros(st.u))

\* the body of while v % 2 == 0 { ... }
HalveVBody(st, x, y) ==
    IF st.c % 2 = 0 /\ st.d % 2 = 0
    THEN [st EXCEPT !.v = st.v \div 2, !.c = st.c \div 2, !.d = st.d \div 2]
    ELSE IF st.d > x
    THEN [st EXCEPT !.v = st.v \div 2, !.c = (st.c + y) \div 2,
                    !.d = (st.d - x) \div 2]
    ELSE [st EXCEPT !.v = st.v \div 2, !.c = (st.c - y) \div 2,
                    !.d = (st.d + x) \div 2]

RECURSIVE HalveVLoop(_, _, _, _)
HalveVRest(mid, x, y, rest) ==
    IF mid.v >= 0 THEN HalveVLoop(mid, x, y, rest) ELSE mid

HalveVLoop(st, x, y, passes) ==
    IF passes = 1 THEN HalveVBody(st, x, y)
    ELSE HalveVRest(HalveVLoop(st, x, y, passes \div 2), x, y,
                    passes - passes \div 2)

\* while v % 2 == 0 { ... }, for v > 0
HalveV(st, x, y) ==
    IF st.v % 2 # 0 THEN st ELSE HalveVLoop(st, x, y, trailing_zeros(st.v))

\* if u >= v { u -= v; a -= c; b -= d } else { v -= u; c -= a; d -= b }
GcdSub(s2) ==
    IF s2.u >= s2.v
    THEN [s2 EXCEPT !.u = s2.u - s2.v, !.a = s2.a - s2.c, !.b = s2.b - s2.d]
    ELSE [s2 EXCEPT !.v = s2.v - s2.u, !.c = s2.c - s2.a, !.d = s2.d - s2.b]

\* one pass of the body of `loop`
GcdBody(st, x, y) ==
    LET s1 == HalveU(st, x, y)
        s2 == HalveV(s1, x, y)
    IN  CASE Now(s1) /\ Now(s2) -> GcdSub(s2)

\* Every pass but the first halves u or v, so the loop returns within
\* GcdPasses passes.
GcdPasses == 2 * WordBits + 1

RECURSIVE GcdLoop(_, _, _, _)
\* if u == 0 { return ... }, else the remaining passes
GcdRest(mid, x, y, rest) ==
    IF mid.u = 0 THEN mid ELSE GcdLoop(mid, x, y, rest)

\* The state in which `loop` returns, at most `passes` passes from st; the
\* passes are run as two halves so that the evaluation stays shallow.
GcdLoop(st, x, y, passes) ==
    IF passes = 1 THEN GcdBody(st, x, y)
    ELSE GcdRest(GcdLoop(st, x, y, passes \div 2), x, y,
                 passes - passes \div 2)

\* return (c, d, g * v)
GcdReturn(st, g) == <<st.c, st.d, g * st.v>>

GcdStart(x, y, g) ==
    GcdReturn(GcdLoop([u |-> x, v |-> y, a |-> 1, b |-> 0, c |-> 0, d |-> 1],
                      x, y, GcdPasses), g)

\* x >>= shift; y >>= shift, with g = 1 << shift
GcdShifted(x0, y0, g) == GcdStart(x0 \div g, y0 \div g, g)

\* The call does not return: with u = 0 or v = 0 a while loop never ends.
Hang == [kind |-> "Hang"]

\* (c, d, gcd) with c * x + d * y = gcd; shift = (x | y).trailing_zeros()
extended_gcd(x0, y0) ==
    IF x0 = 0 \/ y0 = 0 THEN Hang
    ELSE GcdShifted(x0, y0,
                    IF trailing_zeros(x0) < trailing_zeros(y0)
                    THEN 2 ^ trailing_zeros(x0) ELSE 2 ^ trailing_zeros(y0))

\* an inverse taken without the sign correction
inv_reduce_unsigned(self, modulus) ==
    IF self = 0 THEN Hang
    ELSE extended_gcd(modulus, self)[2]

\* if inv > 0 { inv } else { inv + modulus }
InvSign(inv, modulus) == IF inv > 0 THEN inv ELSE inv + modulus

inv_reduce(self, modulus) ==
    IF self = 0 THEN Hang
    ELSE InvSign(extended_gcd(modulus, self)[2], modulus)

\* try_inv_reduce: Ok(inverse), Err(NoReduceInverse), or no return at all
try_inv_reduce(self, modulus) ==
    IF self = 0 THEN Hang
    ELSE LET r == extended_gcd(modulus, self)
         IN  IF r[3] = 1
             THEN [kind |-> "Ok", value |-> InvSign(r[2], modulus)]
             ELSE [kind |-> "Err", error |-> "NoReduceInverse"]

\* ------------------------------------------------------------------------
\* Shoup factors
\* ------------------------------------------------------------------------
\* quotient = floor(value * 2^WordBits / modulus)
ShoupFactor(value, modulus) ==
    [value |-> value, quotient |-> div_wide(value, modulus)[1]]

ShoupDefault == [value |-> 0, quotient |-> Word(0)]

\* rhs * self.value mod modulus, in [0, 2 * modulus)
mul_reduce_lazy(self, rhs, modulus) ==
    LET hw == widen_mul(self.quotient, Word(rhs))[2]
    IN  CASE Now(self) /\ Now(rhs) /\ Now(hw) ->
            Val(wrapping_sub(wrapping_mul(Word(self.value), Word(rhs)),
                             wrapping_mul(hw, Word(modulus))))

\* a factor whose quotient is taken one bit short
ShoupFactorU8Short(value, modulus) ==
    [value |-> value,
     quotient |-> ((value * (Byte \div 2)) \div modulus) % Byte]

\* ShoupFactor::<u8>::new(value, modulus)
ShoupFactorU8(value, modulus) ==
    [value |-> value, quotient |-> ((value * Byte) \div modulus) % Byte]

\* ShoupFactor::<u8>::mul_reduce_lazy
mul_reduce_lazy_u8(self, rhs, modulus) ==
    LET hw == (self.quotient * rhs) \div Byte
    IN  (((self.value * rhs) % Byte) - ((hw * modulus) % Byte)) % Byte

\* ------------------------------------------------------------------------
\* CipherField: the NTT field of the scheme
\* ------------------------------------------------------------------------
CipherBarrett == BarrettModulus(MODULUS)

to_root(self) == ShoupFactor(self, MODULUS)

from_root(root) == root.value

mul_root(self, root) ==
    ConditionalSub(mul_reduce_lazy(root, self, MODULUS), MODULUS)

is_primitive_root(root, degree) ==
    IF root = 0 THEN FALSE
    ELSE pow_reduce(root, degree \div 2, CipherBarrett) = MODULUS - 1

NoPrimitiveRoot == [kind |-> "Err", err |-> "NoPrimitiveRoot"]

\* g is the first of the (at most 100) sampled candidates whose power passes
\* the primitive-root test, or 0 when every one of the samples fails it.
try_primitive_root(degree, g) ==
    LET modulus_sub_one == MODULUS - 1
        quotient == modulus_sub_one \div degree
    IN  IF modulus_sub_one # quotient * degree THEN NoPrimitiveRoot
        ELSE IF g = 0 THEN NoPrimitiveRoot
        ELSE [kind |-> "Ok", value |-> pow_reduce(g, quotient, CipherBarrett)]

\* A candidate g that try_primitive_root can stop at.
Accepted(degree, g) ==
    /\ (MODULUS - 1) % degree = 0
    /\ is_primitive_root(pow_reduce(g, (MODULUS - 1) \div degree, CipherBarrett), degree)

\* a loop body that never replaces root by a smaller current_generator
MinimalBodyKeepRoot(st, generator_sq) ==
    [root |-> st.root,
     current_generator |-> mul_root(st.current_generator, generator_sq)]

\* if current_generator < root { root = current_generator; }
\* current_generator.mul_root_assign(generator_sq);
MinimalBody(st, generator_sq) ==
    [root |-> IF st.current_generator < st.root THEN st.current_generator
              ELSE st.root,
     current_generator |-> mul_root(st.current_generator, generator_sq)]

RECURSIVE MinimalLoop(_, _, _)
MinimalRest(mid, generator_sq, rest) ==
    IF mid.root >= 0 THEN MinimalLoop(mid, generator_sq, rest) ELSE mid

\* `passes` passes of for _ in 0..degree { ... }, run as two halves
MinimalLoop(st, generator_sq, passes) ==
    IF passes = 1 THEN MinimalBody(st, generator_sq)
    ELSE MinimalRest(MinimalLoop(st, generator_sq, passes \div 2),
                     generator_sq, passes - passes \div 2)

MinimalWith(root, generator_sq, degree) ==
    CASE Now(generator_sq) ->
        [kind |-> "Ok",
         value |-> MinimalLoop([root |-> root, current_generator |-> root],
                               generator_sq, degree).root]

\* let generator_sq = (root * root).to_root();
MinimalSearch(root, degree) ==
    MinimalWith(root, to_root(mul_reduce(root, root, CipherBarrett)), degree)

\* let mut root = Self::try_primitive_root(degree)?;
MinimalFrom(found, degree) ==
    IF found.kind # "Ok" THEN found ELSE MinimalSearch(found.value, degree)

try_minimal_primitive_root(degree, g) ==
    MinimalFrom(try_primitive_root(degree, g), degree)

\* ------------------------------------------------------------------------
\* NTT tables
\* ------------------------------------------------------------------------
RECURSIVE reverse_bits(_, _)
\* the low `bits` bits of i, reversed
reverse_bits(i, bits) ==
    IF bits = 0 THEN 0
    ELSE (i % 2) * (2 ^ (bits - 1)) + reverse_bits(i \div 2, bits - 1)

reverse_lsbs(self, bits) ==
    IF self = 0 \/ bits = 0 THEN 0 ELSE reverse_bits(self, bits)

\* *root_power = power.to_root();
RootPowersPush(acc, p1) ==
    CASE Now(p1) -> [acc |-> Append(acc, to_root(p1)), power |-> p1]

\* power.mul_root_assign(root_factor); *root_power = power.to_root();
RootPowersBody(st, root_factor) ==
    RootPowersPush(st.acc, mul_root(st.power, root_factor))

RECURSIVE RootPowersLoop(_, _, _)
RootPowersRest(mid, root_factor, rest) ==
    IF mid.power >= 0 THEN RootPowersLoop(mid, root_factor, rest) ELSE mid

\* `passes` passes of for root_power in iter { ... }, run as two halves
RootPowersLoop(st, root_factor, passes) ==
    IF passes = 1 THEN RootPowersBody(st, root_factor)
    ELSE RootPowersRest(RootPowersLoop(st, root_factor, passes \div 2),
                        root_factor, passes - passes \div 2)

\* ordinal_root_powers after the loop has filled the `left` entries that
\* follow acc
RootPowers(acc, power, root_factor, left) ==
    IF left = 0 THEN acc
    ELSE RootPowersLoop([acc |-> acc, power |-> power], root_factor, left).acc

\* the fields of the table, given coeff_count and the reverse_lsbs vector
TableFields(root, coeff_count_power, ordinal_root_powers, coeff_count, rev) ==
    LET inv_root == from_root(ordinal_root_powers[Len(ordinal_root_powers)])
        root_one == At(ordinal_root_powers, 0)
        \* the writes root_powers[rev[j]] = ordinal_root_powers[j], j in 0..n-1
        root_powers ==
            Vec(coeff_count, LAMBDA i :
                IF \E j \in 0..(coeff_count - 1) : At(rev, j) = i
                THEN At(ordinal_root_powers,
                        CHOOSE j \in 0..(coeff_count - 1) : At(rev, j) = i)
                ELSE IF i = 0 THEN root_one ELSE ShoupDefault)
        \* the writes inv_root_powers[rev[j] + 1] = ordinal_root_powers[2n-1-j],
        \* j in 0..n-2
        inv_root_powers ==
            Vec(coeff_count, LAMBDA i :
                IF \E j \in 0..(coeff_count - 2) : At(rev, j) + 1 = i
                THEN At(ordinal_root_powers, 2 * coeff_count - 1
                        - (CHOOSE j \in 0..(coeff_count - 2) : At(rev, j) + 1 = i))
                ELSE IF i = 0 THEN root_one ELSE ShoupDefault)
        inv_degree == to_root(inv_reduce(coeff_count, MODULUS))
    IN  [root |-> root,
         inv_root |-> inv_root,
         coeff_count_power |-> coeff_count_power,
         coeff_count |-> coeff_count,
         inv_degree |-> inv_degree,
         root_powers |-> root_powers,
         inv_root_powers |-> inv_root_powers,
         ordinal_root_powers |-> ordinal_root_powers,
         reverse_lsbs |-> rev]

NTTTable(root, coeff_count_power, ordinal_root_powers) ==
    TableFields(root, coeff_count_power, ordinal_root_powers,
                2 ^ coeff_count_power,
                Vec(2 ^ coeff_count_power,
                    LAMBDA i : reverse_lsbs(i, coeff_count_power)))

Panic == [kind |-> "Panic"]

\* g: the outcome of the random root search (see try_primitive_root)
TableWithPowers(root, log_n, ordinal_root_powers) ==
    CASE Now(ordinal_root_powers) ->
        [kind |-> "Ok", table |-> NTTTable(root, log_n, ordinal_root_powers)]

TableWithFactor(root, root_factor, log_n) ==
    CASE Now(root_factor) ->
        TableWithPowers(root, log_n,
                        RootPowers(<<to_root(1), root_factor>>, root,
                                   root_factor, 2 ^ (log_n + 1) - 2))

\* let root_factor = root.to_root();
TableWithRoot(root, log_n) == TableWithFactor(root, to_root(root), log_n)

\* let root = Self::try_minimal_primitive_root(...)?;
TableFrom(found, log_n) ==
    IF found.kind # "Ok" THEN found ELSE TableWithRoot(found.value, log_n)

generate_ntt_table(log_n, g) ==
    IF log_n + 1 >= WordBits THEN Panic
    ELSE TableFrom(try_minimal_primitive_root(2 ^ log_n * 2, g), log_n)

\* ------------------------------------------------------------------------
\* Transforms
\* ------------------------------------------------------------------------
\* a guard that leaves its argument as it is
guard_skipped(a) == a

guard(a) == IF a >= TWICE_MODULUS_INNER THEN a - TWICE_MODULUS_INNER ELSE a

ntt_normalize_assign(a) ==
    LET r == IF a >= TWICE_MODULUS_INNER THEN a - TWICE_MODULUS_INNER ELSE a
    IN  IF r >= MODULUS THEN r - MODULUS ELSE r

intt_normalize_assign(a) == IF a >= MODULUS THEN a - MODULUS ELSE a

add_no_reduce(a, b) == a + b

add_fast(a, b) ==
    LET r == a + b
    IN  IF r >= TWICE_MODULUS_INNER THEN r - TWICE_MODULUS_INNER ELSE r

sub_fast(a, b) == a + TWICE_MODULUS_INNER - b

mul_root_fast(a, root) ==
    LET hw == widen_mul(Word(a), root.quotient)[2]
    IN  CASE Now(a) /\ Now(hw) ->
            Val(wrapping_sub(wrapping_mul(Word(root.value), Word(a)),
                             wrapping_mul(hw, Word(MODULUS))))

\* One pass of the forward loop, with the given gap; the passes with larger
\* gaps have taken n / (2 gap) - 1 roots from root_iter.
ForwardLayer(table, values, gap) ==
    LET n == table.coeff_count
        root(idx) == At(table.root_powers, n \div (2 * gap) + idx \div (2 * gap))
    IN  CASE Now(values) -> Vec(n, LAMBDA idx :
            IF idx % (2 * gap) < gap
            THEN add_no_reduce(guard(At(values, idx)),
                               mul_root_fast(At(values, idx + gap), root(idx)))
            ELSE sub_fast(guard(At(values, idx - gap)),
                          mul_root_fast(At(values, idx), root(idx))))

RECURSIVE ForwardLayers(_, _, _)
ForwardNext(table, v1, x) ==
    IF Len(v1) >= 0 THEN ForwardLayers(table, v1, x - 1) ELSE v1

\* for gap in (0..log_n).rev().map(|x| 1 << x), from exponent x down to 0
ForwardLayers(table, values, x) ==
    IF x < 0 THEN values
    ELSE ForwardNext(table, ForwardLayer(table, values, 2 ^ x), x)

\* values.iter_mut().for_each(ntt_normalize_assign)
NttNormalize(out) == Vec(Len(out), LAMBDA i : ntt_normalize_assign(At(out, i)))

transform_slice(table, values) ==
    NttNormalize(ForwardLayers(table, values, table.coeff_count_power - 1))

\* One pass of the first inverse loop; the passes with smaller gaps have
\* taken n - n / gap roots from root_iter.
InverseLayer(table, values, gap) ==
    LET n == table.coeff_count
        root(idx) == At(table.inv_root_powers,
                        1 + (n - n \div gap) + idx \div (2 * gap))
    IN  CASE Now(values) -> Vec(n, LAMBDA idx :
            IF idx % (2 * gap) < gap
            THEN add_fast(At(values, idx), At(values, idx + gap))
            ELSE mul_root_fast(sub_fast(At(values, idx - gap), At(values, idx)),
                               root(idx)))

RECURSIVE InverseLayers(_, _, _, _)
InverseNext(table, v1, x, last) ==
    IF Len(v1) >= 0 THEN InverseLayers(table, v1, x + 1, last) ELSE v1

\* for gap in (0..log_n - 1).map(|x| 1 << x), from exponent x up to last
InverseLayers(table, values, x, last) ==
    IF x > last THEN values
    ELSE InverseNext(table, InverseLayer(table, values, 2 ^ x), x, last)

\* The last pass, with gap = 1 << (log_n - 1), folds in the scaling by
\* inv_degree.
LastLayer(table, mid, gap, scalar, scaled_r) ==
    CASE Now(mid) /\ Now(scaled_r) ->
        Vec(table.coeff_count, LAMBDA idx :
            IF idx < gap
            THEN mul_root_fast(add_no_reduce(At(mid, idx), At(mid, idx + gap)),
                               scalar)
            ELSE mul_root_fast(sub_fast(At(mid, idx - gap), At(mid, idx)),
                               scaled_r))

\* values.iter_mut().for_each(intt_normalize_assign)
InttNormalize(out) ==
    Vec(Len(out), LAMBDA i : intt_normalize_assign(At(out, i)))

\* The result is the slice, or Panic: with log_n = 0 the range bound
\* log_n - 1 underflows (overflow check in a debug build; in a release build
\* the wrapped range runs until chunks_exact_mut is handed a zero size).
inverse_transform_slice(table, values) ==
    LET log_n == table.coeff_count_power
    IN  IF log_n = 0 THEN Panic
        ELSE [kind |-> "Ok",
              values |-> InttNormalize(
                  LastLayer(table,
                            InverseLayers(table, values, 0, log_n - 2),
                            2 ^ (log_n - 1),
                            table.inv_degree,
                            to_root(mul_root(
                                from_root(At(table.inv_root_powers,
                                             table.coeff_count - 1)),
                                table.inv_degree))))]

\* ------------------------------------------------------------------------
\* Polynomials over CipherField (algebra: native_polynomial.rs)
\* ------------------------------------------------------------------------
\* The table MulAssign obtains from get_ntt_table(log_n).unwrap(); it is the
\* same for every candidate the root search can stop at.
TableFor(log_n) ==
    LET g == CHOOSE c \in 2..MaxCandidate : Accepted(2 ^ (log_n + 1), c)
    IN  CASE Now(g) -> generate_ntt_table(log_n, g).table

poly_add(lhs, rhs) ==
    Vec(Len(lhs), LAMBDA i : add_reduce(At(lhs, i), At(rhs, i), MODULUS))

poly_neg(self) == Vec(Len(self), LAMBDA i : neg_reduce(At(self, i), MODULUS))

poly_mul_scalar(self, scalar) ==
    CASE Now(self) /\ Now(scalar) ->
        Vec(Len(self), LAMBDA i : mul_reduce(At(self, i), scalar, CipherBarrett))

ntt_mul_assign_fast(lhs, rhs) ==
    CASE Now(lhs) /\ Now(rhs) ->
        Vec(Len(lhs), LAMBDA i :
            lazy_mul_reduce(At(lhs, i), At(rhs, i), CipherBarrett))

\* MulAssign for Polynomial; the result is that of inverse_transform_slice
mul_assign(self, rhs, ntt_table) ==
    LET r == transform_slice(ntt_table, rhs)
        l == transform_slice(ntt_table, self)
        prod == ntt_mul_assign_fast(l, r)
    IN  inverse_transform_slice(ntt_table, prod)

\* MulAssign: transform both, multiply entry-wise, transform back
poly_mul_with(ntt_table, self, rhs) ==
    LET r == transform_slice(ntt_table, rhs)
        l == transform_slice(ntt_table, self)
        prod == ntt_mul_assign_fast(l, r)
    IN  inverse_transform_slice(ntt_table, prod).values

\* ------------------------------------------------------------------------
\* Sampling (algebra: utils/sample.rs)
\* ------------------------------------------------------------------------
\* s = [ZERO, ZERO, ONE, NEG_ONE]
TernaryValues == {0, 1, MODULUS - 1}

\* the largest count of one bits in x[0], x[1], x[2] & 0x1F
CbdOnes == 8 + 8 + 5

cbd(a, b) == IF a >= b THEN a - b ELSE MODULUS - (b - a)

CbdValues == {cbd(a, b) : a \in 0..CbdOnes, b \in 0..CbdOnes}

\* ------------------------------------------------------------------------
\* BFV (bfv: scheme.rs, secretkey.rs)
\* ------------------------------------------------------------------------
\* half is <<quotient, remainder>> of (k / 2) * v by d
MulDivStep(half, k, v, d) ==
    LET s == 2 * half[2] + (k % 2) * v
    IN  <<2 * half[1] + (s \div d), s % d>>

RECURSIVE MulDivRem(_, _, _)
\* <<quotient, remainder>> of k * v by d, bit by bit of k; the source
\* computes in u64
MulDivRem(k, v, d) ==
    IF k = 0 THEN <<0, 0>>
    ELSE MulDivStep(MulDivRem(k \div 2, v, d), k, v, d)

AddDiv(qr, h, d) == qr[1] + ((qr[2] + h) \div d)

\* (a * b + h) / d in u64, for h < d
MulAddDiv(a, b, h, d) ==
    AddDiv(IF a < b THEN MulDivRem(a, b, d) ELSE MulDivRem(b, a, d), h, d)

\* From<u32> for CipherField
CipherFrom(value) == IF value < MODULUS THEN value ELSE value % MODULUS

\* From<u16> for PlainField
PlainFrom(value) == IF value < PlainModulus THEN value ELSE value % PlainModulus

\* the closure `round` of encrypt: PlainField -> CipherField
encrypt_round(value) ==
    LET t == PlainModulus
        q == MODULUS
        half_t_minus_1 == (t - 1) \div 2
        half_t == t \div 2
    IN  IF value > half_t_minus_1
        THEN CipherFrom(q - MulAddDiv(q, t - value, half_t, t))
        ELSE CipherFrom(MulAddDiv(q, value, half_t, t))

\* a decrypt closure that truncates t * value / q instead of rounding it
decrypt_round_truncating(value) ==
    LET t == PlainModulus
        q == MODULUS
    IN  IF value > (q - 1) \div 2
        THEN PlainFrom(t - MulAddDiv(t, q - value, 0, q))
        ELSE PlainFrom(MulAddDiv(t, value, 0, q))

\* the closure `round` of decrypt: CipherField -> PlainField
decrypt_round(value) ==
    LET t == PlainModulus
        q == MODULUS
        half_q_minus_1 == (q - 1) \div 2
        half_q == q \div 2
    IN  IF value > half_q_minus_1
        THEN PlainFrom(t - MulAddDiv(t, q - value, half_q, q))
        ELSE PlainFrom(MulAddDiv(t, value, half_q, q))

\* pk = [b, -a] with b = a * sk + e
gen_pubkey(ntt_table, sk, a, e) ==
    <<poly_add(poly_mul_with(ntt_table, a, sk), e), poly_neg(a)>>

\* u, e1, e2: the ternary and the two error polynomials encrypt samples
bfv_encrypt(ntt_table, pk, m, u, e1, e2) ==
    LET b == pk[1]
        a == pk[2]
        mq == Vec(Len(m), LAMBDA i : encrypt_round(At(m, i)))
        c1 == poly_add(poly_add(poly_mul_with(ntt_table, b, u), e1), mq)
        c2 == poly_add(poly_mul_with(ntt_table, a, u), e2)
    IN  <<c1, c2>>

\* msg.iter().map(round)
RoundAll(msg) == Vec(Len(msg), LAMBDA i : decrypt_round(At(msg, i)))

bfv_decrypt(ntt_table, sk, c) ==
    RoundAll(poly_add(c[1], poly_mul_with(ntt_table, c[2], sk)))

\* a scalar multiplication that leaves the second component alone
evaluate_mul_scalar_first_only(scalar, c) ==
    <<poly_mul_scalar(c[1], scalar), c[2]>>

evaluate_mul_scalar(scalar, c) ==
    <<poly_mul_scalar(c[1], scalar), poly_mul_scalar(c[2], scalar)>>

evalute_add(c_lhs, c_rhs) ==
    <<poly_add(c_lhs[1], c_rhs[1]), poly_add(c_lhs[2], c_rhs[2])>>

RECURSIVE InnerProductFold(_, _, _, _)
InnerProductNext(a1, c, scalar, i) ==
    IF Len(a1) > 0 THEN InnerProductFold(a1, c, scalar, i + 1) ELSE a1

\* .fold(zero, |acc, (c, s)| evalute_add(&acc, &evaluate_mul_scalar(s, c)))
InnerProductFold(acc, c, scalar, i) ==
    IF i > Len(c) THEN acc
    ELSE InnerProductNext(
             evalute_add(acc, evaluate_mul_scalar(scalar[i], c[i])),
             c, scalar, i)

\* dim: ctx.rlwe_dimension()
evaluate_inner_product(dim, c, scalar) ==
    IF Len(c) # Len(scalar) THEN Panic
    ELSE LET zero == Vec(dim, LAMBDA i : 0)
         IN  [kind |-> "Ok",
              ct |-> InnerProductFold(<<zero, zero>>, c, scalar, 1)]

\* ------------------------------------------------------------------------
\* PlainField arithmetic: Barrett reduction over u16 (algebra: barrett)
\* ------------------------------------------------------------------------
PlainWord == 2 ^ PlainBits

\* div_half(rem, divisor), for rem < divisor <= HALF
div_half(rem, divisor) ==
    LET HALF_BITS == PlainBits \div 2
        hi == ((rem * 2 ^ HALF_BITS) % PlainWord) \div divisor
        r1 == ((rem * 2 ^ HALF_BITS) % PlainWord) % divisor
        lo == ((r1 * 2 ^ HALF_BITS) % PlainWord) \div divisor
        r2 == ((r1 * 2 ^ HALF_BITS) % PlainWord) % divisor
    IN  <<hi * 2 ^ HALF_BITS + lo, r2>>

\* BarrettModulus::<u16>::new(value), for value <= HALF
BarrettModulusU16(value) ==
    LET top == div_half(1, value)
        bot == div_half(top[2], value)
    IN  [value |-> value, ratio |-> <<bot[1], top[1]>>]

PlainBarrett == BarrettModulusU16(PlainModulus)

\* (lo, hi) of a * b for two u16
widen_mul_u16(a, b) == <<Mul16(a, b)[2], Mul16(a, b)[1]>>

\* (lo, hi) of a * b + carry
carry_mul_u16(a, b, carry) ==
    LET wide == widen_mul_u16(a, b)
    IN  <<(wide[1] + carry) % PlainWord,
          (wide[2] + (wide[1] + carry) \div PlainWord) % PlainWord>>

\* (lo, hi).lazy_reduce(modulus) over u16, with u32 as the wide type
lazy_reduce_u16(self, modulus) ==
    LET ratio == modulus.ratio
        a == ratio[1] * self[1]
        b_plus_a_left == ratio[2] * self[1] + (a \div PlainWord)
        c == ratio[1] * self[2]
        d == ratio[2] * self[2]
        tmp == (d + ((b_plus_a_left + c) \div PlainWord)) % PlainWord
    IN  (self[1] + PlainWord - ((tmp * modulus.value) % PlainWord)) % PlainWord

reduce_u16(self, modulus) ==
    ConditionalSub(lazy_reduce_u16(self, modulus), modulus.value)

\* Mul for PlainField
plain_mul(x, y) == reduce_u16(widen_mul_u16(x, y), PlainBarrett)

\* Field::add_mul: self + a * b
add_mul(self, a, b) == reduce_u16(carry_mul_u16(a, b, self), PlainBarrett)

\* Div for PlainField: div_reduce
plain_div(x, y) == plain_mul(x, inv_reduce(y, PlainModulus))

RECURSIVE EvaluateFold(_, _, _)
\* the fold of evaluate over the coefficients i, i - 1, ..., 1 after the
\* higher ones: acc starts from ZERO at the last coefficient
EvaluateFold(data, x, i) ==
    IF i > Len(data) THEN 0
    ELSE add_mul(data[i], EvaluateFold(data, x, i + 1), x)

\* Polynomial::evaluate
evaluate(data, x) == EvaluateFold(data, x, 1)

\* ------------------------------------------------------------------------
\* Threshold policy and threshold PKE (bfv: tpke.rs)
\* ------------------------------------------------------------------------
\* ThresholdPolicy::new; indices are raw PlainField values
ThresholdPolicyNew(total_number, threshold_number, indices) ==
    IF Len(indices) # total_number THEN Panic
    ELSE IF \E i \in 1..Len(indices) : indices[i] = 0 THEN Panic
    ELSE IF ~(threshold_number <= total_number) THEN Panic
    ELSE IF ~(total_number <= MAX_NODES_NUMBER) THEN Panic
    ELSE [kind |-> "Ok",
          total_number |-> total_number,
          threshold_number |-> threshold_number,
          indices |-> indices]

\* The share polynomial of coefficient i of the secret: Polynomial::random
\* gave `sampled`, and poly[0] = *m overwrites its first coefficient.
SharePoly(sampled, m) == [sampled EXCEPT ![1] = m]

\* ThresholdPolicy::secret_sharing; sampled[i + 1] is what Polynomial::random
\* returns for coefficient i of the secret
secret_sharing(policy, secret, sampled) ==
    IF policy.threshold_number = 0 /\ Len(secret) > 0 THEN Panic
    ELSE [kind |-> "Ok",
          shares |->
            Vec(policy.total_number, LAMBDA j :
                Vec(Len(secret), LAMBDA i :
                    evaluate(SharePoly(At(sampled, i), At(secret, i)),
                             At(policy.indices, j))))]

\* points_without_i.retain(|x| *x != *point)
Retain(points, point) == SelectSeq(points, LAMBDA x : x # point)

RECURSIVE NumeratorFold(_, _)
\* a numerator fold without the negation
NumeratorFoldUnsigned(points, i) ==
    IF i = 0 THEN 1
    ELSE plain_mul(NumeratorFold(points, i - 1), points[i])

\* .fold(F::ONE, |acc, &x| acc * (-x)) over the first i points
NumeratorFold(points, i) ==
    IF i = 0 THEN 1
    ELSE plain_mul(NumeratorFold(points, i - 1),
                   neg_reduce(points[i], PlainModulus))

RECURSIVE DenominatorFold(_, _, _)
\* a denominator fold over the differences x - point
DenominatorFoldSwapped(points, point, i) ==
    IF i = 0 THEN 1
    ELSE plain_mul(DenominatorFold(points, point, i - 1),
                   sub_reduce(points[i], point, PlainModulus))

\* .fold(F::ONE, |acc, &x| acc * (*point - x)) over the first i points
DenominatorFold(points, point, i) ==
    IF i = 0 THEN 1
    ELSE plain_mul(DenominatorFold(points, point, i - 1),
                   sub_reduce(point, points[i], PlainModulus))

\* ThresholdPKE::gen_lagrange_coeffs
gen_lagrange_coeffs(chosen_indices) ==
    IF \E i \in 1..Len(chosen_indices) : chosen_indices[i] = 0 THEN Panic
    ELSE [kind |-> "Ok",
          coeffs |->
            Vec(Len(chosen_indices), LAMBDA i :
                LET point == At(chosen_indices, i)
                    points_without_i == Retain(chosen_indices, point)
                IN  plain_div(
                        NumeratorFold(points_without_i, Len(points_without_i)),
                        DenominatorFold(points_without_i, point,
                                        Len(points_without_i))))]

\* ThresholdPKE::encrypt; rnd[j] is what BFVScheme::encrypt samples for pk j
tpke_encrypt(ntt_table, policy, pks, m, sampled, rnd) ==
    IF Len(pks) # policy.total_number THEN Panic
    ELSE LET polys == secret_sharing(policy, m, sampled)
         IN  IF Now(polys) /\ polys.kind = "Panic" THEN Panic
             ELSE [kind |-> "Ok",
                   shares |-> polys.shares,
                   ctxts |->
                     Vec(Len(pks), LAMBDA j :
                         bfv_encrypt(ntt_table, At(pks, j), At(polys.shares, j),
                                     At(rnd, j)[1], At(rnd, j)[2], At(rnd, j)[3]))]

\* ThresholdPKE::combine
combine(dim, ctxts, chosen_indices) ==
    IF Len(ctxts) # Len(chosen_indices) THEN Panic
    ELSE LET lagrange_coeff == gen_lagrange_coeffs(chosen_indices)
             coeffs == lagrange_coeff.coeffs
         IN  IF Now(lagrange_coeff) /\ lagrange_coeff.kind = "Panic" THEN Panic
             ELSE CASE Now(coeffs) -> evaluate_inner_product(dim, ctxts, coeffs)

\* ------------------------------------------------------------------------
\* State
\* ------------------------------------------------------------------------
VARIABLES
    nttTable,     \* the Arc<NTTTable> a caller holds, or NoTable
    nttInput,     \* the coefficient vector the caller started from
    nttValues,    \* the slice the transforms work on, in place
    nttState      \* "coefficients" | "transformed" | "restored" | "panicked"

VARIABLES
    bfvSk,        \* a node's secret key
    bfvPk,        \* its public key [b, -a]
    bfvSkNew,     \* the recipient's secret key
    bfvPkNew,     \* the recipient's public key
    bfvMsg,       \* the plaintext given to encrypt, or None
    bfvCt,        \* the ciphertext at hand, or None
    bfvPrev,      \* the ciphertext that was handed to re_encrypt, or None
    bfvOut,       \* the plaintext the last decrypt returned, or None
    bfvState      \* "keys" | "fresh" | "received" | "reencrypted"

VARIABLES
    linSk,        \* the secret key of the linear evaluation
    linPk,        \* its public key
    linMsgs,      \* the plaintexts m_i encrypted so far
    linCts,       \* their fresh ciphertexts c_i
    linScalars,   \* the scalars alpha_i, one for each ciphertext
    linResult,    \* what evaluate_inner_product returned, or None
    linOut,       \* what decrypt returned for it, or None
    linState      \* "terms" | "evaluated" | "decrypted"

VARIABLES
    polArgs,      \* the arguments of ThresholdPolicy::new
    polResult,    \* the policy it returned, or Panic, or None before the call
    polState      \* "args" | "done"

VARIABLES
    tpPolicy,     \* the ThresholdPolicy of the context
    tpSks,        \* the secret keys of the nodes, by position
    tpPks,        \* their public keys
    tpSkNew,      \* the recipient's secret key
    tpPkNew,      \* the recipient's public key
    tpMsg,        \* the plaintext given to ThresholdPKE::encrypt, or None
    tpCts,        \* the share-ciphertext held for each position
    tpStage,      \* for each position, "Fresh" or "Re-encrypted"
    tpTimes,      \* for each position, how often it went through re_encrypt
    tpInputs,     \* the stages of the ciphertexts each operation was given
    tpChosen,     \* the positions handed to combine, or None
    tpIndices,    \* the chosen_indices handed to combine, or None
    tpCombined,   \* what combine returned, or None
    tpOut,        \* what decrypt returned for it, or None
    tpState       \* "keys" | "shares" | "combined" | "decrypted" | "panicked"

VARIABLES
    fnArgs,       \* the arguments of one call of a library function
    fnResult,     \* what the call returned, or None before it
    fnState       \* "args" | "done"

VARIABLES
    cacheCell,    \* NTT_TABLE: the once-cell and, when set, its map
    cacheMutex,   \* NTT_MUTEX: the thread holding it (0: none), poisoned
    cacheThreads, \* per thread: the call it runs and where it stands in it
    cacheMade     \* per log_n: how many tables have been generated for it

nttVars == <<nttTable, nttInput, nttValues, nttState>>

bfvVars == <<bfvSk, bfvPk, bfvSkNew, bfvPkNew, bfvMsg, bfvCt, bfvPrev, bfvOut,
             bfvState>>

linVars == <<linSk, linPk, linMsgs, linCts, linScalars, linResult, linOut,
             linState>>

polVars == <<polArgs, polResult, polState>>

tpVars == <<tpPolicy, tpSks, tpPks, tpSkNew, tpPkNew, tpMsg, tpCts, tpStage,
            tpTimes, tpInputs, tpChosen, tpIndices, tpCombined, tpOut, tpState>>

fnVars == <<fnArgs, fnResult, fnState>>

cacheVars == <<cacheCell, cacheMutex, cacheThreads, cacheMade>>

vars == <<nttVars, bfvVars, linVars, polVars, tpVars, fnVars, cacheVars>>

\* what the actions of each specification leave alone
nttOthers == <<bfvVars, linVars, polVars, tpVars, fnVars, cacheVars>>

bfvOthers == <<nttVars, linVars, polVars, tpVars, fnVars, cacheVars>>

linOthers == <<nttVars, bfvVars, polVars, tpVars, fnVars, cacheVars>>

polOthers == <<nttVars, bfvVars, linVars, tpVars, fnVars, cacheVars>>

tpOthers == <<nttVars, bfvVars, linVars, polVars, fnVars, cacheVars>>

fnOthers == <<nttVars, bfvVars, linVars, polVars, tpVars, cacheVars>>

cacheOthers == <<nttVars, bfvVars, linVars, polVars, tpVars, fnVars>>

None == <<>>

NoTable == [kind |-> "None"]

\* The parts of the state a specification does not use stay idle.
NttIdle ==
    /\ nttTable = NoTable
    /\ nttInput = <<>>
    /\ nttValues = <<>>
    /\ nttState = "idle"

BfvIdle ==
    /\ bfvSk = None /\ bfvPk = None /\ bfvSkNew = None /\ bfvPkNew = None
    /\ bfvMsg = None /\ bfvCt = None /\ bfvPrev = None /\ bfvOut = None
    /\ bfvState = "idle"

LinIdle ==
    /\ linSk = None /\ linPk = None /\ linMsgs = None /\ linCts = None
    /\ linScalars = None /\ linResult = None /\ linOut = None
    /\ linState = "idle"

PolIdle == polArgs = None /\ polResult = None /\ polState = "idle"

TpIdle ==
    /\ tpPolicy = None /\ tpSks = None /\ tpPks = None /\ tpSkNew = None
    /\ tpPkNew = None /\ tpMsg = None /\ tpCts = None /\ tpStage = None
    /\ tpTimes = None /\ tpInputs = {} /\ tpChosen = None /\ tpIndices = None
    /\ tpCombined = None /\ tpOut = None
    /\ tpState = "idle"

FnIdle == fnArgs = None /\ fnResult = None /\ fnState = "idle"

CacheIdle ==
    /\ cacheCell = None /\ cacheMutex = None /\ cacheThreads = None
    /\ cacheMade = None

NttOthersIdle == BfvIdle /\ LinIdle /\ PolIdle /\ TpIdle /\ FnIdle
    /\ CacheIdle

BfvOthersIdle == NttIdle /\ LinIdle /\ PolIdle /\ TpIdle /\ FnIdle
    /\ CacheIdle

LinOthersIdle == NttIdle /\ BfvIdle /\ PolIdle /\ TpIdle /\ FnIdle
    /\ CacheIdle

PolOthersIdle == NttIdle /\ BfvIdle /\ LinIdle /\ TpIdle /\ FnIdle
    /\ CacheIdle

TpOthersIdle == NttIdle /\ BfvIdle /\ LinIdle /\ PolIdle /\ FnIdle
    /\ CacheIdle

FnOthersIdle == NttIdle /\ BfvIdle /\ LinIdle /\ PolIdle /\ TpIdle
    /\ CacheIdle

CacheOthersIdle ==
    NttIdle /\ BfvIdle /\ LinIdle /\ PolIdle /\ TpIdle /\ FnIdle

\* ------------------------------------------------------------------------
\* Encrypt, decrypt, re-encrypt (bfv: scheme.rs, tpke.rs)
\* ------------------------------------------------------------------------
\* ctx.rlwe_dimension(), scaled down from DIMENSION_N
PolyLen == 2 ^ LogDim

CipherTable == TableFor(LogDim)

\* The polynomials of length n that repeat a pair of P.
Patterned(P, n) == {Vec(n, LAMBDA i : p[(i % 2) + 1]) : p \in P}

\* ternary polynomials: secret keys and the u of encrypt
TernaryPolys ==
    Patterned({<<1, 1>>, <<MODULUS - 1, MODULUS - 1>>, <<1, 0>>}, PolyLen)

\* error polynomials, at the extremes of the centered binomial sampler
ErrorPolys ==
    Patterned({<<cbd(CbdOnes, 0), cbd(CbdOnes, 0)>>,
               <<cbd(0, CbdOnes), cbd(0, CbdOnes)>>,
               <<cbd(CbdOnes, 0), cbd(0, CbdOnes)>>}, PolyLen)

MaxErrorPoly == Vec(PolyLen, LAMBDA i : cbd(CbdOnes, 0))

MinErrorPoly == Vec(PolyLen, LAMBDA i : cbd(0, CbdOnes))

\* the pairs (e1, e2) of one encryption
ErrorPairs ==
    {<<MaxErrorPoly, MaxErrorPoly>>, <<MinErrorPoly, MaxErrorPoly>>,
     <<MinErrorPoly, MinErrorPoly>>}
        \cup {<<e, e>> : e \in ErrorPolys}

MixedTernaryPoly == Vec(PolyLen, LAMBDA i : IF i % 2 = 0 THEN MODULUS - 1 ELSE 1)

\* the uniform polynomial a of a public key
UniformPolys ==
    Patterned({<<2, 3>>, <<MODULUS - 1, MODULUS \div 2>>}, PolyLen)

\* a uniform polynomial with coefficients far from 0
LargeUniformPoly ==
    Vec(PolyLen, LAMBDA i : IF i % 2 = 0 THEN MODULUS \div 3 ELSE MODULUS \div 2)

\* plaintexts, on both sides of the rounding threshold (t - 1) / 2
PlainPolys ==
    Patterned({<<0, 0>>, <<30, 31>>, <<60, 1>>, <<31, 60>>}, PolyLen)

\* ciphertexts that no encryption produced
ArbitraryCts ==
    {<<c1, c2>> : c1 \in Patterned({<<0, 0>>, <<MODULUS \div 2, 7>>}, PolyLen),
                  c2 \in Patterned({<<MODULUS - 1, 1>>, <<123456, 0>>}, PolyLen)}

\* a re-encryption that opens the share with the negated node key
re_encrypt_negated_key(ntt_table, sk, pk_new, c, u, e1, e2) ==
    bfv_encrypt(ntt_table, pk_new, bfv_decrypt(ntt_table, poly_neg(sk), c),
                u, e1, e2)

\* ThresholdPKE::re_encrypt
re_encrypt(ntt_table, sk, pk_new, c, u, e1, e2) ==
    LET share == bfv_decrypt(ntt_table, sk, c)
    IN  bfv_encrypt(ntt_table, pk_new, share, u, e1, e2)

\* BFVScheme::gen_keypair, for the node and for the recipient
InitBFV ==
    /\ \E sk \in TernaryPolys, a \in UniformPolys, e \in ErrorPolys :
         /\ bfvSk = sk
         /\ bfvPk = gen_pubkey(CipherTable, sk, a, e)
    /\ \E sk \in {MixedTernaryPoly}, a \in {CHOOSE a \in UniformPolys : TRUE},
          e \in {MaxErrorPoly} :
         /\ bfvSkNew = sk
         /\ bfvPkNew = gen_pubkey(CipherTable, sk, a, e)
    /\ bfvMsg = None /\ bfvCt = None /\ bfvPrev = None /\ bfvOut = None
    /\ bfvState = "keys"
    /\ BfvOthersIdle

\* BFVScheme::encrypt(ctx, pk, m)
Encrypt ==
    /\ bfvState = "keys"
    /\ \E m \in PlainPolys, u \in TernaryPolys, e \in ErrorPairs :
         /\ bfvMsg' = m
         /\ bfvCt' = bfv_encrypt(CipherTable, bfvPk, m, u, e[1], e[2])
    /\ bfvState' = "fresh"
    /\ UNCHANGED <<bfvSk, bfvPk, bfvSkNew, bfvPkNew, bfvPrev, bfvOut,
                   bfvOthers>>

\* a ciphertext arrives from outside (BFVCiphertext::from_vec)
Receive ==
    /\ bfvState = "keys"
    /\ \E c \in ArbitraryCts : bfvCt' = c
    /\ bfvState' = "received"
    /\ UNCHANGED <<bfvSk, bfvPk, bfvSkNew, bfvPkNew, bfvMsg, bfvPrev, bfvOut,
                   bfvOthers>>

\* ThresholdPKE::re_encrypt(ctx, sk, pk_new, c)
ReEncrypt ==
    /\ bfvState \in {"fresh", "received"}
    /\ \E u \in TernaryPolys, e \in {MaxErrorPoly} :
         bfvCt' = re_encrypt(CipherTable, bfvSk, bfvPkNew, bfvCt, u, e, e)
    /\ bfvPrev' = bfvCt
    /\ bfvOut' = None
    /\ bfvState' = "reencrypted"
    /\ UNCHANGED <<bfvSk, bfvPk, bfvSkNew, bfvPkNew, bfvMsg, bfvOthers>>

\* BFVScheme::decrypt, with the key the ciphertext is meant for
Decrypt ==
    /\ bfvState \in {"fresh", "received", "reencrypted"}
    /\ bfvOut = None
    /\ bfvOut' = bfv_decrypt(CipherTable,
                             IF bfvState = "reencrypted" THEN bfvSkNew ELSE bfvSk,
                             bfvCt)
    /\ UNCHANGED <<bfvSk, bfvPk, bfvSkNew, bfvPkNew, bfvMsg, bfvCt, bfvPrev,
                   bfvState, bfvOthers>>

NextBFV == Encrypt \/ Receive \/ ReEncrypt \/ Decrypt

SpecBFV == InitBFV /\ [][NextBFV]_vars

\* The largest noise |e * u + e1 + e2 * s| of a fresh ciphertext in
\* dimension n: every coefficient of e, e1, e2 is at most CbdOnes in size.
FreshNoiseBound(n) == 2 * n * CbdOnes + CbdOnes

\* C2: decrypting a fresh encryption of m with the matching secret key
\* returns m, coefficient by coefficient, whatever the keys and whatever
\* encrypt sampled; in dimension DIMENSION_N the noise stays below
\* Delta / 2.
C2_DecryptEncrypt ==
    /\ (bfvState = "fresh" /\ bfvOut # None) => bfvOut = bfvMsg
    /\ 2 * (FreshNoiseBound(DIMENSION_N) + 1) < MODULUS \div PlainModulus

C2_Witness ==
    /\ bfvState = "fresh"
    /\ bfvOut = bfvMsg
    /\ \E i \in 1..Len(bfvMsg) : bfvMsg[i] > (PlainModulus - 1) \div 2
    /\ \E i \in 1..Len(bfvMsg) : bfvMsg[i] \in 1..((PlainModulus - 1) \div 2)

\* C8: a re-encrypted ciphertext decrypts under the recipient's key to what
\* the ciphertext handed to re_encrypt decrypts to under the node's key,
\* for fresh ciphertexts and for arbitrary ones.
C8_ReEncryptKeepsContent ==
    bfvState = "reencrypted" =>
        bfv_decrypt(CipherTable, bfvSkNew, bfvCt)
            = bfv_decrypt(CipherTable, bfvSk, bfvPrev)

C8_Witness ==
    /\ bfvState = "reencrypted"
    /\ bfvMsg = None
    /\ bfvOut # None
    /\ bfvOut = bfv_decrypt(CipherTable, bfvSk, bfvPrev)
    /\ \E i \in 1..Len(bfvOut) : bfvOut[i] # 0

\* ------------------------------------------------------------------------
\* Linear evaluation (bfv: scheme.rs)
\* ------------------------------------------------------------------------
\* the number of terms of an inner product
MaxTerms == 3

\* the scalars alpha_i: PlainField values
LinScalars == {(PlainModulus + 1) \div 2, PlainModulus - 1}

LinPlainPolys == Patterned({<<60, 1>>, <<30, 31>>}, PolyLen)

\* what one encryption samples: <<u, e1, e2>>
LinRandomness ==
    {<<Vec(PolyLen, LAMBDA i : 1), MaxErrorPoly, MaxErrorPoly>>,
     <<MixedTernaryPoly, MinErrorPoly, MaxErrorPoly>>}

InitLinear ==
    /\ \E sk \in {MixedTernaryPoly}, a \in {LargeUniformPoly},
          e \in {MaxErrorPoly} :
         /\ linSk = sk
         /\ linPk = gen_pubkey(CipherTable, sk, a, e)
    /\ linMsgs = <<>> /\ linCts = <<>> /\ linScalars = <<>>
    /\ linResult = None /\ linOut = None
    /\ linState = "terms"
    /\ LinOthersIdle

\* one more term: c_i = BFVScheme::encrypt(ctx, pk, m_i), and its scalar
AddTerm ==
    /\ linState = "terms"
    /\ Len(linCts) < MaxTerms
    /\ \E m \in LinPlainPolys, alpha \in LinScalars, r \in LinRandomness :
         /\ linMsgs' = Append(linMsgs, m)
         /\ linCts' = Append(linCts,
                bfv_encrypt(CipherTable, linPk, m, r[1], r[2], r[3]))
         /\ linScalars' = Append(linScalars, alpha)
    /\ UNCHANGED <<linSk, linPk, linResult, linOut, linState, linOthers>>

\* BFVScheme::evaluate_inner_product(ctx, c, scalar)
InnerProduct ==
    /\ linState = "terms"
    /\ \E r \in {evaluate_inner_product(PolyLen, linCts, linScalars)} :
         IF r.kind = "Panic"
         THEN linState' = "panicked" /\ UNCHANGED linResult
         ELSE linState' = "evaluated" /\ linResult' = r.ct
    /\ UNCHANGED <<linSk, linPk, linMsgs, linCts, linScalars, linOut, linOthers>>

\* BFVScheme::decrypt(ctx, sk, result)
DecryptLinear ==
    /\ linState = "evaluated"
    /\ linOut' = bfv_decrypt(CipherTable, linSk, linResult)
    /\ linState' = "decrypted"
    /\ UNCHANGED <<linSk, linPk, linMsgs, linCts, linScalars, linResult,
                   linOthers>>

NextLinear == AddTerm \/ InnerProduct \/ DecryptLinear

SpecLinear == InitLinear /\ [][NextLinear]_vars

RECURSIVE CoefficientSum(_, _, _, _)
\* coefficient j of alpha_1 m_1 + ... + alpha_i m_i, over the integers
CoefficientSum(msgs, scalars, i, j) ==
    IF i = 0 THEN 0
    ELSE scalars[i] * At(msgs[i], j) + CoefficientSum(msgs, scalars, i - 1, j)

\* the sum of alpha_i * m_i in R_t
PlainInnerProduct(msgs, scalars) ==
    Vec(PolyLen, LAMBDA j :
        CoefficientSum(msgs, scalars, Len(msgs), j) % PlainModulus)

RECURSIVE AccumulatedNoiseBound(_, _)
\* The noise of the sum of alpha_i * c_i, for the first i scalars: the noise
\* of c_i and the rounding of its encoding, each multiplied by alpha_i.
AccumulatedNoiseBound(scalars, i) ==
    IF i = 0 THEN 0
    ELSE scalars[i] * (FreshNoiseBound(PolyLen) + 1)
             + AccumulatedNoiseBound(scalars, i - 1)

\* C3: for 1 to MAX_NODES_NUMBER fresh ciphertexts c_i of m_i and scalars
\* alpha_i, the inner product decrypts to the sum of alpha_i * m_i in R_t
\* when the accumulated noise is below Delta / 2.
C3_InnerProduct ==
    (/\ linState = "decrypted"
     /\ Len(linCts) \in 1..MAX_NODES_NUMBER
     /\ 2 * AccumulatedNoiseBound(linScalars, Len(linScalars))
            < MODULUS \div PlainModulus)
        => linOut = PlainInnerProduct(linMsgs, linScalars)

C3_Witness ==
    /\ linState = "decrypted"
    /\ Len(linCts) >= 2
    /\ linScalars[1] # linScalars[2]
    /\ linMsgs[1] # linMsgs[2]
    /\ 2 * AccumulatedNoiseBound(linScalars, Len(linScalars))
           < MODULUS \div PlainModulus
    /\ linOut = PlainInnerProduct(linMsgs, linScalars)
    /\ \E j \in 1..Len(linOut) : linOut[j] # 0

\* ------------------------------------------------------------------------
\* Constructing a threshold policy (bfv: tpke.rs)
\* ------------------------------------------------------------------------
PolicyTotals == {0, 1, 2, 3, MAX_NODES_NUMBER, MAX_NODES_NUMBER + 1}

PolicyThresholds == {0, 1, 2, 3, MAX_NODES_NUMBER + 1}

\* index vectors of a length: distinct and non-zero, repeated, holding
\* F::ZERO, holding the raw value PlainField::new(PlainModulus)
IndexVectors(len) ==
    {Vec(len, LAMBDA i : i + 1),
     Vec(len, LAMBDA i : 1),
     Vec(len, LAMBDA i : i),
     Vec(len, LAMBDA i : IF i = 0 THEN PlainModulus ELSE i + 1)}

InitPolicy ==
    /\ \E n \in PolicyTotals, k \in PolicyThresholds :
         \E len \in {n, n + 1} :
           \E ix \in IndexVectors(len) :
             polArgs = [total_number |-> n, threshold_number |-> k,
                        indices |-> ix]
    /\ polResult = None
    /\ polState = "args"
    /\ PolOthersIdle

\* ThresholdPolicy::new(total_number, threshold_number, indices)
NewPolicy ==
    /\ polState = "args"
    /\ polResult' = ThresholdPolicyNew(polArgs.total_number,
                                       polArgs.threshold_number,
                                       polArgs.indices)
    /\ polState' = "done"
    /\ UNCHANGED <<polArgs, polOthers>>

NextPolicy == NewPolicy

SpecPolicy == InitPolicy /\ [][NextPolicy]_vars

\* the indices are non-zero elements of F_t, no two of them the same
DistinctNonZero(ix) ==
    /\ \A i \in 1..Len(ix) : ix[i] % PlainModulus # 0
    /\ \A i, j \in 1..Len(ix) :
         i # j => ix[i] % PlainModulus # ix[j] % PlainModulus

\* C9: a constructed policy holds exactly n pairwise distinct non-zero
\* indices with k <= n <= MAX_NODES_NUMBER, and construction with a zero
\* index, a repeated index, k > n or n > MAX_NODES_NUMBER is rejected.
C9_PolicyInvariant ==
    polState = "done" =>
        /\ polResult.kind = "Ok" =>
              /\ Len(polResult.indices) = polResult.total_number
              /\ DistinctNonZero(polResult.indices)
              /\ polResult.threshold_number <= polResult.total_number
              /\ polResult.total_number <= MAX_NODES_NUMBER
        /\ (\/ ~DistinctNonZero(polArgs.indices)
            \/ polArgs.threshold_number > polArgs.total_number
            \/ polArgs.total_number > MAX_NODES_NUMBER)
              => polResult.kind = "Panic"

\* ------------------------------------------------------------------------
\* Threshold encryption, re-encryption, combination (bfv: tpke.rs)
\* ------------------------------------------------------------------------
MaxReEncrypts == 2

\* the arguments of ThresholdPKE::gen_context
TpPolicies ==
    {<<2, 0, <<1, 2>>>>, <<2, 1, <<1, 2>>>>, <<2, 2, <<60, 30>>>>,
     <<3, 2, <<60, 1, 31>>>>}

\* the key material of the node at position j: ternary secret, uniform a,
\* error e
TpSecretKey(j) ==
    Vec(PolyLen, LAMBDA i :
        CASE (i + j) % 3 = 0 -> MODULUS - 1
          [] (i + j) % 3 = 1 -> 1
          [] OTHER -> 0)

TpUniform(j) ==
    Vec(PolyLen, LAMBDA i : (MODULUS \div 3) + (j + 1) * (i + 1) * 1000003)

TpError(j) == IF j % 2 = 0 THEN MaxErrorPoly ELSE MinErrorPoly

\* what BFVScheme::encrypt samples when it encrypts for position j
TpRandomness(j) ==
    <<IF j % 2 = 0 THEN MixedTernaryPoly
                   ELSE Vec(PolyLen, LAMBDA i : MODULUS - 1),
      TpError(j), MaxErrorPoly>>

\* a plaintext m, and what Polynomial::random(k) returns for each of its
\* coefficients
TpSecrets(k) ==
    {<<Vec(PolyLen, LAMBDA i : p[1][(i % 2) + 1]),
       Vec(PolyLen, LAMBDA i : Vec(k, LAMBDA c : p[2][((i + c) % 2) + 1]))>> :
        p \in {<<(<<60, 1>>), (<<60, 17>>)>>, <<(<<30, 31>>), (<<1, 44>>)>>}}

InitTPKE ==
    /\ \E a \in TpPolicies :
         /\ tpPolicy = ThresholdPolicyNew(a[1], a[2], a[3])
         /\ tpPolicy.kind = "Ok"
         /\ tpSks = [j \in 1..a[1] |-> TpSecretKey(j - 1)]
         /\ tpPks = [j \in 1..a[1] |->
                       gen_pubkey(CipherTable, TpSecretKey(j - 1),
                                  TpUniform(j - 1), TpError(j - 1))]
    /\ \E sk \in {Vec(PolyLen, LAMBDA i : 1)} :
         /\ tpSkNew = sk
         /\ tpPkNew = gen_pubkey(CipherTable, sk, LargeUniformPoly, MinErrorPoly)
    /\ tpMsg = None /\ tpCts = None /\ tpStage = None /\ tpTimes = None
    /\ tpInputs = {}
    /\ tpChosen = None /\ tpIndices = None /\ tpCombined = None /\ tpOut = None
    /\ tpState = "keys"
    /\ TpOthersIdle

\* ThresholdPKE::encrypt(ctx, pks, m)
ThresholdEncrypt ==
    /\ tpState = "keys"
    /\ \E s \in TpSecrets(tpPolicy.threshold_number) :
         \E r \in {tpke_encrypt(CipherTable, tpPolicy, tpPks, s[1], s[2],
                                [j \in 1..Len(tpPks) |-> TpRandomness(j - 1)])} :
           /\ tpMsg' = s[1]
           /\ IF r.kind = "Panic"
              THEN /\ tpState' = "panicked"
                   /\ UNCHANGED <<tpCts, tpStage, tpTimes>>
              ELSE /\ tpState' = "shares"
                   /\ tpCts' = r.ctxts
                   /\ tpStage' = [j \in 1..Len(tpPks) |-> "Fresh"]
                   /\ tpTimes' = [j \in 1..Len(tpPks) |-> 0]
    /\ UNCHANGED <<tpPolicy, tpSks, tpPks, tpSkNew, tpPkNew, tpInputs, tpChosen,
                   tpIndices, tpCombined, tpOut, tpOthers>>

\* ThresholdPKE::re_encrypt(ctx, c, sk, pk_new) by the node at position j,
\* on the ciphertext it holds
ReEncryptShare(j) ==
    /\ tpState = "shares"
    /\ tpTimes[j] < MaxReEncrypts
    /\ tpCts' = [tpCts EXCEPT ![j] =
                   re_encrypt(CipherTable, tpSks[j], tpPkNew, tpCts[j],
                              TpRandomness(j)[1], TpRandomness(j)[2],
                              TpRandomness(j)[3])]
    /\ tpInputs' = tpInputs \cup
                     {[op |-> "re_encrypt", stage |-> tpStage[j],
                       own_index |-> TRUE]}
    /\ tpStage' = [tpStage EXCEPT ![j] = "Re-encrypted"]
    /\ tpTimes' = [tpTimes EXCEPT ![j] = tpTimes[j] + 1]
    /\ UNCHANGED <<tpPolicy, tpSks, tpPks, tpSkNew, tpPkNew, tpMsg, tpChosen,
                   tpIndices, tpCombined, tpOut, tpState, tpOthers>>

\* the positions of a set, in ascending order
Ascending(S) ==
    CHOOSE f \in [1..Cardinality(S) -> S] :
        \A a, b \in 1..Cardinality(S) : a < b => f[a] < f[b]

\* the policy's indices of the chosen positions
MatchingIndices(policy, chosen) ==
    [i \in 1..Len(chosen) |-> policy.indices[chosen[i]]]

\* the chosen_indices a caller may pass beside the chosen ciphertexts
ChosenIndices(policy, chosen) ==
    {MatchingIndices(policy, chosen),
     [i \in 1..Len(chosen) |-> policy.indices[chosen[(i % Len(chosen)) + 1]]],
     SubSeq(MatchingIndices(policy, chosen), 1, Len(chosen) - 1)}

\* ThresholdPKE::combine(ctx, ctxts, chosen_indices)
Combine ==
    /\ tpState = "shares"
    /\ \E S \in SUBSET (1..Len(tpCts)) \ {{}} :
         \E ix \in ChosenIndices(tpPolicy, Ascending(S)) :
         \E chosen \in {Ascending(S)} :
         \E r \in {combine(PolyLen,
                           [i \in 1..Len(chosen) |-> tpCts[chosen[i]]], ix)} :
               /\ tpChosen' = chosen
               /\ tpIndices' = ix
               /\ tpInputs' = tpInputs \cup
                     {[op |-> "combine", stage |-> tpStage[chosen[i]],
                       own_index |->
                           /\ i <= Len(ix)
                           /\ ix[i] = tpPolicy.indices[chosen[i]]] :
                         i \in 1..Len(chosen)}
               /\ IF r.kind = "Panic"
                  THEN tpState' = "panicked" /\ UNCHANGED tpCombined
                  ELSE tpState' = "combined" /\ tpCombined' = r.ct
    /\ UNCHANGED <<tpPolicy, tpSks, tpPks, tpSkNew, tpPkNew, tpMsg, tpCts,
                   tpStage, tpTimes, tpOut, tpOthers>>

\* ThresholdPKE::decrypt(ctx, sk_new, combined)
DecryptCombined ==
    /\ tpState = "combined"
    /\ tpOut' = bfv_decrypt(CipherTable, tpSkNew, tpCombined)
    /\ tpState' = "decrypted"
    /\ UNCHANGED <<tpPolicy, tpSks, tpPks, tpSkNew, tpPkNew, tpMsg, tpCts,
                   tpStage, tpTimes, tpInputs, tpChosen, tpIndices, tpCombined,
                   tpOthers>>

NextTPKE ==
    \/ ThresholdEncrypt
    \/ \E j \in 1..MAX_NODES_NUMBER : j <= Len(tpSks) /\ ReEncryptShare(j)
    \/ Combine
    \/ DecryptCombined

SpecTPKE == InitTPKE /\ [][NextTPKE]_vars

\* every chosen share-ciphertext was re-encrypted once, from Fresh, and the
\* chosen_indices are the policy's indices of the chosen positions
ProtocolRun ==
    /\ \A i \in 1..Len(tpChosen) : tpTimes[tpChosen[i]] = 1
    /\ tpIndices = MatchingIndices(tpPolicy, tpChosen)

\* the noise bound of the combination: AccumulatedNoiseBound for the
\* Lagrange coefficients
CombinedNoiseBound ==
    AccumulatedNoiseBound(gen_lagrange_coeffs(tpIndices).coeffs, Len(tpIndices))

\* C1: for a policy (n, k) with pairwise distinct non-zero indices and a
\* subset S with |S| >= k, when the shares of m with j in S are each
\* re-encrypted with sk_j to pk_new and combined with the matching
\* indices, decryption with sk_new returns m, as long as the accumulated
\* noise is below Delta / 2.
C1_ThresholdDecrypt ==
    (/\ tpState = "decrypted"
     /\ DistinctNonZero(tpPolicy.indices)
     /\ Len(tpChosen) >= tpPolicy.threshold_number
     /\ ProtocolRun
     /\ 2 * CombinedNoiseBound < MODULUS \div PlainModulus)
        => tpOut = tpMsg

C1_Witness ==
    /\ tpState = "decrypted"
    /\ tpPolicy.total_number = 3
    /\ Len(tpChosen) = tpPolicy.threshold_number
    /\ Len(tpChosen) = 2
    /\ ProtocolRun
    /\ 2 * CombinedNoiseBound < MODULUS \div PlainModulus
    /\ tpOut = tpMsg
    /\ \E i \in 1..Len(tpMsg) : tpMsg[i] # 0

\* C4: re_encrypt is only ever given a Fresh share-ciphertext, and combine
\* only Re-encrypted share-ciphertexts, each beside its own node index.
C4_StagesRespected ==
    \A x \in tpInputs :
        /\ x.op = "re_encrypt" => x.stage = "Fresh"
        /\ x.op = "combine" => x.stage = "Re-encrypted" /\ x.own_index

\* ------------------------------------------------------------------------
\* Transform round trips (algebra/src/transformation/ntt_table.rs)
\* ------------------------------------------------------------------------
\* canonical coefficients the input vectors are drawn from
NttCoeffs == {0, 1, MODULUS - 1}

RootCandidates(degree) == {g \in 2..MaxCandidate : Accepted(degree, g)}

RECURSIVE VectorsOver(_, _)
\* all vectors of length n over the set S
VectorsOver(S, n) ==
    IF n = 0 THEN {<<>>}
    ELSE {Append(v, c) : v \in VectorsOver(S, n - 1), c \in S}

InitNTT ==
    \E log_n \in 0..MaxLogN :
      \E t \in {generate_ntt_table(log_n, g).table :
                    g \in RootCandidates(2 ^ (log_n + 1))} :
        \E a \in VectorsOver(NttCoeffs, 2 ^ log_n) :
          /\ nttTable = t
          /\ nttInput = a
          /\ nttValues = a
          /\ nttState = "coefficients"
          /\ NttOthersIdle

\* table.transform_slice(values)
Transform ==
    /\ nttState \in {"coefficients", "restored"}
    /\ nttValues' = transform_slice(nttTable, nttValues)
    /\ nttState' = "transformed"
    /\ UNCHANGED <<nttTable, nttInput, nttOthers>>

\* table.inverse_transform_slice(values)
InverseTransform ==
    /\ nttState = "transformed"
    /\ \E r \in {inverse_transform_slice(nttTable, nttValues)} :
         IF r.kind = "Panic"
         THEN nttState' = "panicked" /\ UNCHANGED nttValues
         ELSE nttState' = "restored" /\ nttValues' = r.values
    /\ UNCHANGED <<nttTable, nttInput, nttOthers>>

NextNTT == Transform \/ InverseTransform

SpecNTT == InitNTT /\ [][NextNTT]_vars

ZeroVector(n) == Vec(n, LAMBDA i : 0)

\* C10: the inverse transform of the forward transform of a is a, for every
\* log_n whose table exists and every canonical a; the forward transform of
\* the zero polynomial is zero.
C10_RoundTrip ==
    /\ nttState \in {"restored", "panicked"} =>
           nttState = "restored" /\ nttValues = nttInput
    /\ (nttState = "transformed" /\ nttInput = ZeroVector(Len(nttInput))) =>
           nttValues = ZeroVector(Len(nttInput))

\* ------------------------------------------------------------------------
\* Polynomial product (algebra: native_polynomial.rs, polynomial_test.rs)
\* ------------------------------------------------------------------------
\* coefficient patterns of the factors
MulPatterns ==
    {<<1, 0, 0, 0>>, <<0, 1, 0, 0>>, <<0, 0, 0, 1>>,
     <<MODULUS - 1, 1, MODULUS - 1, 1>>,
     <<MODULUS - 1, MODULUS - 1, MODULUS - 1, MODULUS - 1>>,
     <<MODULUS \div 2, MODULUS \div 3, 5, MODULUS - 2>>}

MulPolys(n) == {Vec(n, LAMBDA i : p[(i % 4) + 1]) : p \in MulPatterns}

InitMul ==
    /\ \E log_n \in 0..MaxLogN :
         \E a \in MulPolys(2 ^ log_n), b \in MulPolys(2 ^ log_n) :
           fnArgs = [op |-> "mul_assign", log_n |-> log_n, a |-> a, b |-> b]
    /\ fnResult = None
    /\ fnState = "args"
    /\ FnOthersIdle

\* a * b: log_n = coeff_count.trailing_zeros(), the table of log_n
MulAssign ==
    /\ fnState = "args"
    /\ fnArgs.op = "mul_assign"
    /\ fnResult' = mul_assign(fnArgs.a, fnArgs.b, TableFor(fnArgs.log_n))
    /\ fnState' = "done"
    /\ UNCHANGED <<fnArgs, fnOthers>>

NextMul == MulAssign

SpecMul == InitMul /\ [][NextMul]_vars

RECURSIVE ModMul(_, _)
\* a * b modulo MODULUS, by doubling
ModMul(a, b) ==
    IF b = 0 THEN 0
    ELSE (2 * ModMul(a, b \div 2) + (b % 2) * a) % MODULUS

RECURSIVE NegacyclicSum(_, _, _, _)
\* the sum over j < upto of a_j * b_(k - j), negated where k - j wraps
\* around X^N = -1
NegacyclicSum(a, b, k, upto) ==
    IF upto = 0 THEN 0
    ELSE LET j == upto - 1
             n == Len(a)
             term == IF j <= k
                     THEN ModMul(At(a, j), At(b, k - j))
                     ELSE (MODULUS - ModMul(At(a, j), At(b, n + k - j))) % MODULUS
         IN  (NegacyclicSum(a, b, k, j) + term) % MODULUS

\* simple_mul: the product modulo X^N + 1 and MODULUS
simple_mul(a, b) == Vec(Len(a), LAMBDA k : NegacyclicSum(a, b, k, Len(a)))

\* C11: for polynomials a, b of the same power-of-two length with canonical
\* coefficients, a * b computed through the NTT is the naive negacyclic
\* product modulo X^N + 1 and p, with canonical coefficients.
C11_NttProduct ==
    (fnState = "done" /\ fnArgs.op = "mul_assign") =>
        /\ fnResult.kind = "Ok"
        /\ fnResult.values = simple_mul(fnArgs.a, fnArgs.b)
        /\ \A i \in 1..Len(fnResult.values) : fnResult.values[i] \in 0..(MODULUS - 1)

\* ------------------------------------------------------------------------
\* Barrett reduction of single and double words (algebra: modulus/barrett)
\* ------------------------------------------------------------------------
\* every valid modulus of u8
ByteModuli == 2..(2 ^ (ByteBits - 2) - 1)

\* halves of the double words [lo, hi] of u8
EdgeBytes == {0, 1, HalfByte, Byte \div 2 - 1, Byte \div 2, Byte - 1}

\* words of u32, as limbs
EdgeWords ==
    {Word(0), Word(1), Word(MODULUS - 1), Word(MODULUS), Word(2 * MODULUS - 1),
     <<0, Limb \div 2>>, <<Limb - 1, Limb - 1>>}

InitBarrett ==
    /\ \/ \E m \in ByteModuli, x \in 0..(Byte - 1) :
            fnArgs = [op |-> "reduce_u8", m |-> m, x |-> x]
       \/ \E m \in ByteModuli, lo \in EdgeBytes, hi \in EdgeBytes :
            fnArgs = [op |-> "reduce_pair_u8", m |-> m, x |-> <<lo, hi>>]
       \/ \E x \in EdgeWords :
            fnArgs = [op |-> "reduce_u32", m |-> MODULUS, x |-> x]
       \/ \E lo \in EdgeWords, hi \in EdgeWords :
            fnArgs = [op |-> "reduce_pair_u32", m |-> MODULUS, x |-> <<lo, hi>>]
    /\ fnResult = None
    /\ fnState = "args"
    /\ FnOthersIdle

\* x.reduce(BarrettModulus::<u8>::new(m)); lazy is what lazy_reduce returned
ReduceU8 ==
    /\ fnState = "args" /\ fnArgs.op = "reduce_u8"
    /\ \E r \in {lazy_reduce_u8(fnArgs.x, BarrettModulusU8(fnArgs.m))} :
         fnResult' = [lazy |-> r, value |-> ConditionalSub(r, fnArgs.m)]
    /\ fnState' = "done"
    /\ UNCHANGED <<fnArgs, fnOthers>>

\* [lo, hi].reduce(BarrettModulus::<u8>::new(m))
ReducePairU8 ==
    /\ fnState = "args" /\ fnArgs.op = "reduce_pair_u8"
    /\ \E r \in {lazy_reduce_pair_u8(fnArgs.x, BarrettModulusU8(fnArgs.m))} :
         fnResult' = [lazy |-> r, value |-> ConditionalSub(r, fnArgs.m)]
    /\ fnState' = "done"
    /\ UNCHANGED <<fnArgs, fnOthers>>

\* x.reduce(BarrettModulus::<u32>::new(m))
ReduceU32 ==
    /\ fnState = "args" /\ fnArgs.op = "reduce_u32"
    /\ \E r \in {lazy_reduce_word(fnArgs.x, BarrettModulus(fnArgs.m))} :
         fnResult' = [lazy |-> r, value |-> ConditionalSub(r, fnArgs.m)]
    /\ fnState' = "done"
    /\ UNCHANGED <<fnArgs, fnOthers>>

\* [lo, hi].reduce(BarrettModulus::<u32>::new(m))
ReducePairU32 ==
    /\ fnState = "args" /\ fnArgs.op = "reduce_pair_u32"
    /\ \E r \in {lazy_reduce(fnArgs.x, BarrettModulus(fnArgs.m))} :
         fnResult' = [lazy |-> r, value |-> ConditionalSub(r, fnArgs.m)]
    /\ fnState' = "done"
    /\ UNCHANGED <<fnArgs, fnOthers>>

NextBarrett == ReduceU8 \/ ReducePairU8 \/ ReduceU32 \/ ReducePairU32

SpecBarrett == InitBarrett /\ [][NextBarrett]_vars

RECURSIVE MulMod(_, _, _)
\* a * b modulo m, by doubling (3 * m fits)
MulMod(a, b, m) ==
    IF b = 0 THEN 0
    ELSE (2 * MulMod(a, b \div 2, m) + (b % 2) * (a % m)) % m

\* the word l modulo m
WordMod(l, m) == (l[1] + MulMod(l[2], Limb, m)) % m

\* the integer the argument x of an operation op stands for, modulo m
ArgMod(op, x, m) ==
    CASE op = "reduce_u8" -> x % m
      [] op = "reduce_pair_u8" -> (x[2] * Byte + x[1]) % m
      [] op = "reduce_u32" -> WordMod(x, m)
      [] op = "reduce_pair_u32" ->
            (WordMod(x[1], m)
                + MulMod(WordMod(x[2], m), MulMod(Limb, Limb, m), m)) % m

ReduceOps == {"reduce_u8", "reduce_pair_u8", "reduce_u32", "reduce_pair_u32"}

\* C12: for a valid Barrett modulus m, reduce of a single word x is x mod m
\* and reduce of a double word [lo, hi] is (hi * 2^W + lo) mod m; the lazy
\* result before the conditional subtraction is in [0, 2m).
C12_BarrettReduce ==
    (fnState = "done" /\ fnArgs.op \in ReduceOps) =>
        /\ fnResult.value = ArgMod(fnArgs.op, fnArgs.x, fnArgs.m)
        /\ fnResult.lazy >= 0
        /\ fnResult.lazy < 2 * fnArgs.m

C12_Witness ==
    /\ fnState = "done"
    /\ fnArgs.op = "reduce_pair_u8"
    /\ fnArgs.x[2] = Byte - 1
    /\ fnResult.lazy >= fnArgs.m
    /\ fnResult.value = ArgMod(fnArgs.op, fnArgs.x, fnArgs.m)
    /\ fnResult.value > 0

\* ------------------------------------------------------------------------
\* Shoup multiplication (algebra: modulus/shoup)
\* ------------------------------------------------------------------------
\* the factors w < p tried for a modulus p
ShoupValues(p) == {0, 1 % p, p \div 2, p - 1}

\* right-hand sides of u32
ShoupWords ==
    {0, 1, MODULUS - 1, MODULUS, 2 * MODULUS - 1, Val(<<Limb - 1, Limb \div 2 - 1>>)}

InitShoup ==
    /\ \/ \E p \in 1..(2 ^ (ByteBits - 2) - 1) :
            \E w \in ShoupValues(p), x \in 0..(Byte - 1) :
              fnArgs = [op |-> "shoup_u8", p |-> p, w |-> w, x |-> x]
       \/ \E w \in ShoupValues(MODULUS), x \in ShoupWords :
            fnArgs = [op |-> "shoup_u32", p |-> MODULUS, w |-> w, x |-> x]
    /\ fnResult = None
    /\ fnState = "args"
    /\ FnOthersIdle

\* ShoupFactor::<u8>::new(w, p).mul_reduce(x, p); lazy is what
\* mul_reduce_lazy returned
ShoupMulU8 ==
    /\ fnState = "args" /\ fnArgs.op = "shoup_u8"
    /\ \E r \in {mul_reduce_lazy_u8(ShoupFactorU8(fnArgs.w, fnArgs.p),
                                     fnArgs.x, fnArgs.p)} :
         fnResult' = [lazy |-> r, value |-> ConditionalSub(r, fnArgs.p)]
    /\ fnState' = "done"
    /\ UNCHANGED <<fnArgs, fnOthers>>

\* ShoupFactor::<u32>::new(w, p).mul_reduce(x, p)
ShoupMulU32 ==
    /\ fnState = "args" /\ fnArgs.op = "shoup_u32"
    /\ \E r \in {mul_reduce_lazy(ShoupFactor(fnArgs.w, fnArgs.p),
                                  fnArgs.x, fnArgs.p)} :
         fnResult' = [lazy |-> r, value |-> ConditionalSub(r, fnArgs.p)]
    /\ fnState' = "done"
    /\ UNCHANGED <<fnArgs, fnOthers>>

NextShoup == ShoupMulU8 \/ ShoupMulU32

SpecShoup == InitShoup /\ [][NextShoup]_vars

\* C13: for a modulus p with its top two bits zero, w < p and a word x,
\* the lazy Shoup product is congruent to w * x modulo p and below 2p, and
\* the canonical product is (w * (x mod p)) mod p.
C13_ShoupProduct ==
    (fnState = "done" /\ fnArgs.op \in {"shoup_u8", "shoup_u32"}) =>
        /\ fnResult.lazy >= 0
        /\ fnResult.lazy < 2 * fnArgs.p
        /\ fnResult.lazy % fnArgs.p = MulMod(fnArgs.w, fnArgs.x, fnArgs.p)
        /\ fnResult.value = MulMod(fnArgs.w, fnArgs.x % fnArgs.p, fnArgs.p)

C13_Witness ==
    /\ fnState = "done"
    /\ fnArgs.op = "shoup_u8"
    /\ fnArgs.x >= fnArgs.p
    /\ fnArgs.w > 1
    /\ fnResult.lazy >= fnArgs.p
    /\ fnResult.value = MulMod(fnArgs.w, fnArgs.x % fnArgs.p, fnArgs.p)
    /\ fnResult.value > 0

\* ------------------------------------------------------------------------
\* Inverses (algebra: reduce/primitive.rs, utils/gcd.rs)
\* ------------------------------------------------------------------------
MaxModulus == 16

\* the values whose inverse is requested modulo m
InverseValues(m) ==
    IF m <= PlainModulus THEN 0..(m - 1)
    ELSE {0, 1, 2, m \div 2, m \div 3, m - 2, m - 1}

IsPrime(n) == n >= 2 /\ \A d \in 2..(n - 1) : n % d # 0

\* prime moduli: small ones, PlainField's and CipherField's
PrimeModuli == {n \in 2..MaxModulus : IsPrime(n)} \cup {PlainModulus, MODULUS}

InitInverse ==
    /\ \/ \E m \in (2..MaxModulus) \cup {PlainModulus, MODULUS} :
            \E a \in InverseValues(m) :
              fnArgs = [op |-> "try_inv_reduce", m |-> m, a |-> a]
       \/ \E m \in PrimeModuli :
            \E a \in InverseValues(m) :
              fnArgs = [op |-> "inv_reduce", m |-> m, a |-> a]
    /\ fnResult = None
    /\ fnState = "args"
    /\ FnOthersIdle

\* a.try_inv_reduce(m); "hung" when the call does not return
TryInvReduce ==
    /\ fnState = "args" /\ fnArgs.op = "try_inv_reduce"
    /\ fnResult' = try_inv_reduce(fnArgs.a, fnArgs.m)
    /\ fnState' = IF fnResult' = Hang THEN "hung" ELSE "done"
    /\ UNCHANGED <<fnArgs, fnOthers>>

\* a.inv_reduce(m)
InvReduce ==
    /\ fnState = "args" /\ fnArgs.op = "inv_reduce"
    /\ \E r \in {inv_reduce(fnArgs.a, fnArgs.m)} :
         IF fnArgs.a = 0
         THEN fnResult' = r /\ fnState' = "hung"
         ELSE fnResult' = [kind |-> "Ok", value |-> r] /\ fnState' = "done"
    /\ UNCHANGED <<fnArgs, fnOthers>>

NextInverse == TryInvReduce \/ InvReduce

SpecInverse == InitInverse /\ [][NextInverse]_vars

RECURSIVE Gcd(_, _)
Gcd(a, b) == IF b = 0 THEN a ELSE Gcd(b, a % b)

\* C14: the inverse of a value a in [0, m) with gcd(a, m) # 1 is answered,
\* and by the NoInverse error, never by a field element.
C14_NoInverseReported ==
    (/\ fnState \in {"done", "hung"}
     /\ fnArgs.op = "try_inv_reduce"
     /\ Gcd(fnArgs.a, fnArgs.m) # 1)
        => fnState = "done" /\ fnResult.kind = "Err"

\* C15: for a prime p and a in [1, p), inv(a) is in [0, p) and
\* a * inv(a) = 1 modulo p.
C15_InverseIsInverse ==
    (/\ fnState \in {"done", "hung"}
     /\ fnArgs.op = "inv_reduce"
     /\ fnArgs.a >= 1)
        => /\ fnState = "done"
           /\ fnResult.value \in 0..(fnArgs.m - 1)
           /\ MulMod(fnArgs.a, fnResult.value, fnArgs.m) = 1

C15_Witness ==
    /\ fnState = "done"
    /\ fnArgs.op = "inv_reduce"
    /\ fnArgs.m = MODULUS
    /\ fnArgs.a = MODULUS - 2
    /\ fnResult.value > 1
    /\ MulMod(fnArgs.a, fnResult.value, fnArgs.m) = 1

\* ------------------------------------------------------------------------
\* Miller-Rabin primality test (algebra: utils/prime.rs)
\* ------------------------------------------------------------------------
MaxRounds == 3

MaxRootLogN == 4

MaxSample == 40

NumThreads == 2

MaxCalls == 2

\* the primes below 64 recorded in PRIME_BIT_MASK
PRIME_BIT_MASK == {2, 3, 5, 7, 11, 13, 17, 19, 23, 29, 31, 37, 41, 43, 47, 53, 59, 61}

\* the divisors tried after the parity test
SievePrimes == {3, 5, 7, 11, 13, 17, 19, 23, 29, 31, 37, 41, 43, 47, 53}

RECURSIVE SquareLoop(_, _, _)
\* for _ in 1..r { x = x^2; ... } with n iterations left: "break" leaves
\* the loop 'next_round, "composite" returns false
SquareLoop(x, n, value) ==
    IF n = 0 THEN "composite"
    ELSE LET x2 == mul_reduce(x, x, BarrettModulus(value))
         IN  IF x2 = value - 1 THEN "break"
             ELSE IF x2 = 1 THEN "composite"
             ELSE SquareLoop(x2, n - 1, value)

\* one round with the witness a: "continue", "break" or "composite"
MillerRabinRound(value, a) ==
    LET r == trailing_zeros(value - 1)
        q == (value - 1) \div (2 ^ r)
        x == pow_reduce(a, q, BarrettModulus(value))
    IN  IF x = 1 \/ x = value - 1 THEN "continue"
        ELSE SquareLoop(x, r - 1, value)

RECURSIVE RoundsFrom(_, _, _, _)
\* 'next_round: for i in i..rounds; ws[i] is the witness sampled in round
\* i >= 1.  The answer, with the number of rounds that were run.
RoundsFrom(value, rounds, ws, i) ==
    IF i >= rounds THEN [answer |-> TRUE, rounds_run |-> i]
    ELSE LET o == MillerRabinRound(value, IF i = 0 THEN 2 ELSE ws[i])
         IN  CASE o = "continue" -> RoundsFrom(value, rounds, ws, i + 1)
               [] o = "break" -> [answer |-> TRUE, rounds_run |-> i + 1]
               [] OTHER -> [answer |-> FALSE, rounds_run |-> i + 1]

\* BarrettModulus::probably_prime(self, rounds)
probably_prime(value, rounds, ws) ==
    IF value = 0 THEN [answer |-> FALSE, rounds_run |-> 0]
    ELSE IF value < 64
    THEN [answer |-> value \in PRIME_BIT_MASK, rounds_run |-> 0]
    ELSE IF value % 2 = 0 THEN [answer |-> FALSE, rounds_run |-> 0]
    ELSE IF \E d \in SievePrimes : value % d = 0
    THEN [answer |-> FALSE, rounds_run |-> 0]
    ELSE RoundsFrom(value, rounds, ws, 0)

\* moduli: below 64, rejected by the sieve, primes, and composites that
\* pass the sieve
PrimeCandidates ==
    {0, 2, 61, 63, 64, 77, 65537, 65539, 66049, 80581, 90751, MODULUS}

\* the witnesses a later round may sample from 3..=value - 1
SampledWitnesses(value) ==
    IF value < 64 THEN {3} ELSE {3, 5, value \div 2, value - 1}

InitPrime ==
    /\ \E value \in PrimeCandidates, rounds \in 0..MaxRounds :
         fnArgs = [op |-> "probably_prime", value |-> value, rounds |-> rounds]
    /\ fnResult = None
    /\ fnState = "args"
    /\ FnOthersIdle

\* BarrettModulus::new(value).probably_prime(rounds), with the witnesses ws
\* its generator yields
ProbablyPrime ==
    /\ fnState = "args" /\ fnArgs.op = "probably_prime"
    /\ \E ws \in [1..MaxRounds -> SampledWitnesses(fnArgs.value)] :
         \E r \in {probably_prime(fnArgs.value, fnArgs.rounds, ws)} :
           fnResult' = [answer |-> r.answer, rounds_run |-> r.rounds_run,
                        witnesses |-> [i \in 1..(r.rounds_run - 1) |-> ws[i]]]
    /\ fnState' = "done"
    /\ UNCHANGED <<fnArgs, fnOthers>>

NextPrime == ProbablyPrime

SpecPrime == InitPrime /\ [][NextPrime]_vars

\* the value went through the sieve to the Miller-Rabin rounds
PassesSieve(value) ==
    /\ value >= 64
    /\ value % 2 = 1
    /\ \A d \in SievePrimes : value % d # 0

\* C16: for a modulus m >= 64 that passes the sieve, probably_prime(m,
\* rounds) answers true only after all `rounds` rounds were run and passed.
C16_AllRoundsRun ==
    (/\ fnState = "done"
     /\ fnArgs.op = "probably_prime"
     /\ PassesSieve(fnArgs.value)
     /\ fnResult.answer)
        => fnResult.rounds_run = fnArgs.rounds

\* ------------------------------------------------------------------------
\* SpecMonomial: the NTT of a monomial (algebra: ntt_table.rs, MonomialNTT)
\* ------------------------------------------------------------------------
\* index = ((2 * i + 1) * degree) & mask, with
\* mask = usize::MAX >> (usize::BITS - log_n - 1), the low log_n + 1 bits
MonomialIndexShortMask(table, i, degree) ==
    ((2 * i + 1) * degree) % (2 ^ table.coeff_count_power)

MonomialIndex(table, i, degree) ==
    ((2 * i + 1) * degree) % (2 ^ (table.coeff_count_power + 1))

\* The values written by transform_monomial(coeff, degree, values), values
\* being a slice of coeff_count elements.
transform_monomial(table, coeff, degree) ==
    LET n == table.coeff_count
        root(k) == At(table.ordinal_root_powers,
                      MonomialIndex(table, At(table.reverse_lsbs, k), degree))
    IN  IF coeff = 0 THEN Vec(n, LAMBDA k : 0)
        ELSE IF degree = 0 THEN Vec(n, LAMBDA k : coeff)
        ELSE IF coeff = 1 THEN Vec(n, LAMBDA k : from_root(root(k)))
        ELSE IF coeff = MODULUS - 1
        THEN Vec(n, LAMBDA k : neg_reduce(from_root(root(k)), MODULUS))
        ELSE Vec(n, LAMBDA k : mul_root(coeff, root(k)))

MonomialCoeffs == {0, 1, 2, 3, 65537, MODULUS - 2, MODULUS - 1}

InitMonomial ==
    /\ \E log_n \in 0..MaxLogN :
         \E degree \in 0..(2 * 2 ^ log_n - 1), coeff \in MonomialCoeffs :
           fnArgs = [op |-> "transform_monomial", log_n |-> log_n,
                     coeff |-> coeff, degree |-> degree]
    /\ fnResult = None
    /\ fnState = "args"
    /\ FnOthersIdle

TransformMonomial ==
    /\ fnState = "args"
    /\ fnArgs.op = "transform_monomial"
    /\ fnResult' = transform_monomial(TableFor(fnArgs.log_n), fnArgs.coeff,
                                      fnArgs.degree)
    /\ fnState' = "done"
    /\ UNCHANGED <<fnArgs, fnOthers>>

NextMonomial == TransformMonomial

SpecMonomial == InitMonomial /\ [][NextMonomial]_vars

\* The polynomial of n coefficients whose only non-zero coefficient is
\* coeff at position degree mod n, negated when degree >= n.
MonomialPoly(n, coeff, degree) ==
    Vec(n, LAMBDA i :
        IF i # degree % n THEN 0
        ELSE IF degree >= n THEN neg_reduce(coeff, MODULUS) ELSE coeff)

MonomialDone == fnState = "done" /\ fnArgs.op = "transform_monomial"

\* C17: for every table of size N, degree d in [0, 2N) and coefficient c,
\* transform_monomial(c, d) writes the forward NTT of the polynomial whose
\* only non-zero coefficient is c at position d mod N, negated when d >= N;
\* and transform_monomial(1, d) = transform_monomial(-1, d + N) for d < N.
C17_MonomialNtt ==
    MonomialDone =>
        LET n == 2 ^ fnArgs.log_n
            table == TableFor(fnArgs.log_n)
        IN  /\ fnResult = transform_slice(
                   table, MonomialPoly(n, fnArgs.coeff, fnArgs.degree))
            /\ (fnArgs.coeff = 1 /\ fnArgs.degree < n) =>
                   fnResult = transform_monomial(table, MODULUS - 1,
                                                 fnArgs.degree + n)

C17_Witness ==
    /\ MonomialDone
    /\ fnArgs.log_n = MaxLogN
    /\ fnArgs.degree > 2 ^ fnArgs.log_n
    /\ fnArgs.coeff = 65537
    /\ \E i \in 1..Len(fnResult) : \E j \in 1..Len(fnResult) :
           fnResult[i] # fnResult[j]

\* ------------------------------------------------------------------------
\* SpecDecompose: digits of a field element and of a polynomial
\* (algebra_derive: field.rs; algebra: decompose_basis.rs,
\* native_polynomial.rs)
\* ------------------------------------------------------------------------
div_floor(lhs, rhs) == lhs \div rhs

div_ceil(lhs, rhs) ==
    IF lhs % rhs > 0 THEN lhs \div rhs + 1 ELSE lhs \div rhs

\* u32::MAX >> (u32::BITS - bits), for 0 < bits < WordBits - 1
field_mask(bits) == 2 ^ bits - 1

decompose_len(basis) == div_ceil(bit_length(MODULUS), trailing_zeros(basis))

\* Basis::new(bits)
Basis(bits) ==
    [basis |-> field_mask(bits) + 1,
     decompose_len |-> decompose_len(field_mask(bits) + 1),
     mask |-> field_mask(bits),
     bits |-> bits]

RECURSIVE DecomposeLoop(_, _, _)
\* the loop over the `left` elements of ret still to visit: a digit is
\* temp & mask, then temp >>= bits; the elements after the break stay 0
DecomposeLoop(temp, basis, left) ==
    IF left = 0 THEN <<>>
    ELSE IF temp = 0 THEN Vec(left, LAMBDA i : 0)
    ELSE <<temp % (basis.mask + 1)>>
         \o DecomposeLoop(temp \div (2 ^ basis.bits), basis, left - 1)

decompose(self, basis) == DecomposeLoop(self, basis, basis.decompose_len)

\* v.decompose_lsb_bits(mask, bits): the digit, and the value left in v
decompose_lsb_bits(self, mask, bits) ==
    [digit |-> self % (mask + 1), self |-> self \div (2 ^ bits)]

RECURSIVE PolyDecomposeLoop(_, _, _)
\* (0..decompose_len).map(...): each pass takes one digit of every
\* coefficient of self and leaves the shifted coefficients in self
PolyDecomposeLoop(self, basis, left) ==
    IF left = 0 THEN <<>>
    ELSE LET step == Vec(Len(self), LAMBDA j :
                         decompose_lsb_bits(At(self, j), basis.mask,
                                            basis.bits))
         IN  <<Vec(Len(self), LAMBDA j : At(step, j).digit)>>
             \o PolyDecomposeLoop(Vec(Len(self), LAMBDA j : At(step, j).self),
                                  basis, left - 1)

poly_decompose(self, basis) ==
    PolyDecomposeLoop(self, basis, basis.decompose_len)

\* floor(log2(MODULUS))
MaxBasisBits == bit_length(MODULUS) - 1

DecomposeValues ==
    {0, 1, 7, 8, 2 ^ 13 + 5, 2 ^ 26 - 1, 2 ^ 26, 2 ^ 26 + 2 ^ 13 + 1,
     MODULUS - 1}

DecomposePolys ==
    {<<a, b>> : a \in {0, 2 ^ 13 + 5, 2 ^ 26, MODULUS - 1},
                b \in {1, 8, 2 ^ 26 - 1, MODULUS - 1}}

InitDecompose ==
    /\ \E bits \in 1..MaxBasisBits :
         \/ \E v \in DecomposeValues :
              fnArgs = [op |-> "decompose", value |-> v, bits |-> bits]
         \/ \E poly \in DecomposePolys :
              fnArgs = [op |-> "poly_decompose", poly |-> poly,
                        bits |-> bits]
    /\ fnResult = None
    /\ fnState = "args"
    /\ FnOthersIdle

Decompose ==
    /\ fnState = "args"
    /\ fnArgs.op = "decompose"
    /\ fnResult' = decompose(fnArgs.value, Basis(fnArgs.bits))
    /\ fnState' = "done"
    /\ UNCHANGED <<fnArgs, fnOthers>>

PolyDecompose ==
    /\ fnState = "args"
    /\ fnArgs.op = "poly_decompose"
    /\ fnResult' = poly_decompose(fnArgs.poly, Basis(fnArgs.bits))
    /\ fnState' = "done"
    /\ UNCHANGED <<fnArgs, fnOthers>>

NextDecompose == Decompose \/ PolyDecompose

SpecDecompose == InitDecompose /\ [][NextDecompose]_vars

RECURSIVE ComposeFrom(_, _, _)
\* sum over i >= from of digits[i] * (2^bits)^(i - from), as an integer
ComposeFrom(digits, bits, from) ==
    IF from > Len(digits) THEN 0
    ELSE digits[from] + 2 ^ bits * ComposeFrom(digits, bits, from + 1)

Compose(digits, bits) == ComposeFrom(digits, bits, 1)

\* C18: for every canonical field element v and every basis 2^bits with
\* bits <= log2(p), the digits of decompose(v, basis) are field elements
\* below the basis whose sum of digit_i * (2^bits)^i is v; and every
\* polynomial is, coefficient by coefficient, the sum of its i-th decomposed
\* polynomial scaled by (2^bits)^i.
C18_DecomposeSum ==
    /\ (fnState = "done" /\ fnArgs.op = "decompose") =>
           /\ Len(fnResult) = Basis(fnArgs.bits).decompose_len
           /\ \A i \in 1..Len(fnResult) :
                  fnResult[i] \in 0..(2 ^ fnArgs.bits - 1)
           /\ Compose(fnResult, fnArgs.bits) = fnArgs.value
    /\ (fnState = "done" /\ fnArgs.op = "poly_decompose") =>
           /\ Len(fnResult) = Basis(fnArgs.bits).decompose_len
           /\ \A j \in 1..Len(fnArgs.poly) :
                  /\ \A i \in 1..Len(fnResult) :
                         fnResult[i][j] \in 0..(2 ^ fnArgs.bits - 1)
                  /\ Compose([i \in 1..Len(fnResult) |-> fnResult[i][j]],
                             fnArgs.bits) = fnArgs.poly[j]

C18_Witness ==
    /\ fnState = "done"
    /\ fnArgs.op = "poly_decompose"
    /\ fnArgs.bits = MaxBasisBits
    /\ fnArgs.poly = <<MODULUS - 1, 2 ^ 26 - 1>>
    /\ Len(fnResult) = 2
    /\ fnResult[2] = <<1, 0>>

\* ------------------------------------------------------------------------
\* SpecRoot: the table generate_ntt_table builds, over the candidates the
\* root search can draw (algebra_derive: ntt.rs)
\* ------------------------------------------------------------------------
\* The candidate the search stops at: a sample whose power passes the test,
\* or 0 when each of the 100 samples fails it.
RootSamples(degree) == {0} \cup {g \in 2..MaxSample : Accepted(degree, g)}

InitRoot ==
    /\ \E log_n \in 0..MaxRootLogN :
         \E g \in RootSamples(2 ^ (log_n + 1)) :
           fnArgs = [op |-> "generate_ntt_table", log_n |-> log_n, g |-> g]
    /\ fnResult = None
    /\ fnState = "args"
    /\ FnOthersIdle

GenerateNttTable ==
    /\ fnState = "args"
    /\ fnArgs.op = "generate_ntt_table"
    /\ fnResult' = generate_ntt_table(fnArgs.log_n, fnArgs.g)
    /\ fnState' = "done"
    /\ UNCHANGED <<fnArgs, fnOthers>>

NextRoot == GenerateNttTable

SpecRoot == InitRoot /\ [][NextRoot]_vars

RECURSIVE ModPow(_, _)
\* a^e modulo MODULUS
ModPow(a, e) ==
    IF e = 0 THEN 1
    ELSE LET h == ModPow(a, e \div 2)
             sq == ModMul(h, h)
         IN  CASE Now(h) /\ Now(sq) ->
                 IF e % 2 = 1 THEN ModMul(sq, a) ELSE sq

\* The primitive 2N-th roots of unity modulo MODULUS, N = 2^log_n: the odd
\* powers of one of them.
PrimitiveRoots(log_n) ==
    LET w == TableFor(log_n).root
    IN  {ModPow(w, 2 * k + 1) : k \in 0..(2 ^ log_n - 1)}

\* C20: the table built for (p, log_n) does not depend on the candidates
\* the root search draws: its root is the smallest primitive 2N-th root of
\* unity modulo p, and the whole table (so every transform computed with
\* it) is the same for every candidate.
C20_TableDeterministic ==
    (fnState = "done" /\ fnArgs.op = "generate_ntt_table"
     /\ fnResult.kind = "Ok") =>
        LET root == fnResult.table.root
            log_n == fnArgs.log_n
        IN  /\ ModPow(root, 2 ^ log_n) = MODULUS - 1
            /\ root \in PrimitiveRoots(log_n)
            /\ \A r \in PrimitiveRoots(log_n) :
                   ModPow(r, 2 ^ log_n) = MODULUS - 1 /\ root <= r
            /\ fnResult.table = TableFor(log_n)

C20_Witness ==
    /\ fnState = "done"
    /\ fnArgs.op = "generate_ntt_table"
    /\ fnArgs.log_n = MaxRootLogN
    /\ fnResult.kind = "Ok"
    /\ try_primitive_root(2 ^ (fnArgs.log_n + 1), fnArgs.g).value
           # fnResult.table.root
    /\ fnArgs.g # (CHOOSE c \in 2..MaxCandidate :
                       Accepted(2 ^ (fnArgs.log_n + 1), c))

\* ------------------------------------------------------------------------
\* SpecCache: the table cache of a field, NTT_TABLE behind NTT_MUTEX, used
\* by several threads (algebra_derive: ntt.rs)
\* ------------------------------------------------------------------------
Threads == 1..NumThreads

\* the log_n of the get_ntt_table calls: two sizes that have a root, one
\* whose 2N does not divide MODULUS - 1, one whose 2N does not fit a u32
GetLogNs == {0, 21, WordBits - 1}

\* the slices of the init_ntt_table calls
InitLists == {<<1>>, <<0, 21>>}

EmptyMap == [l \in {} |-> None]

Range(f) == {f[x] : x \in DOMAIN f}

\* the orders in which a HashSet of log_n can be iterated
Orders(S) ==
    {o \in [1..Cardinality(S) -> S] :
        \A i \in 1..Cardinality(S), j \in 1..Cardinality(S) :
            i # j => o[i] # o[j]}

\* 2N = 2^(log_n + 1) divides MODULUS - 1
HasRoot(log_n) == log_n + 1 <= trailing_zeros(MODULUS - 1)

\* The candidate the root search of generate_ntt_table(log_n) stops at: 0
\* when it finds none.
CacheSamples(log_n) ==
    IF HasRoot(log_n)
    THEN {0, CHOOSE c \in 2..MaxCandidate : Accepted(2 ^ (log_n + 1), c)}
    ELSE {0}

ThreadStart ==
    [pc |-> "idle", op |-> "none", log_ns |-> <<>>, order |-> <<>>,
     mode |-> "none", map |-> EmptyMap, temp |-> None, failed |-> FALSE,
     before |-> None, ret |-> None, calls |-> 0]

InitCache ==
    /\ cacheCell = [set |-> FALSE, tables |-> EmptyMap]
    /\ cacheMutex = [holder |-> 0, poisoned |-> FALSE]
    /\ cacheThreads = [t \in Threads |-> ThreadStart]
    /\ cacheMade = [l \in GetLogNs \cup UNION {Range(l) : l \in InitLists}
                        |-> 0]
    /\ CacheOthersIdle

\* thread t enters get_ntt_table(log_n)
CallGet(t) ==
    /\ cacheThreads[t].pc = "idle"
    /\ cacheThreads[t].calls < MaxCalls
    /\ \E log_n \in GetLogNs :
         cacheThreads' = [cacheThreads EXCEPT ![t] =
             [ThreadStart EXCEPT !.pc = "lookup", !.op = "get_ntt_table",
                                 !.log_ns = <<log_n>>,
                                 !.calls = cacheThreads[t].calls + 1]]
    /\ UNCHANGED <<cacheCell, cacheMutex, cacheMade, cacheOthers>>

\* thread t enters init_ntt_table(log_ns)
CallInit(t) ==
    /\ cacheThreads[t].pc = "idle"
    /\ cacheThreads[t].calls < MaxCalls
    /\ \E log_ns \in InitLists :
         cacheThreads' = [cacheThreads EXCEPT ![t] =
             [ThreadStart EXCEPT !.pc = "lock", !.op = "init_ntt_table",
                                 !.log_ns = log_ns,
                                 !.calls = cacheThreads[t].calls + 1]]
    /\ UNCHANGED <<cacheCell, cacheMutex, cacheMade, cacheOthers>>

\* another thread is inside tables.insert on the map of the cell
Inserting(t) ==
    \E u \in Threads \ {t} :
        cacheThreads[u].pc = "insert" /\ cacheThreads[u].mode = "tables"

Hit(table) == [kind |-> "Hit", table |-> table]

Miss == [kind |-> "Miss"]

Abort == [kind |-> "Abort"]

\* What NTT_TABLE.get() followed by tables.get(&log_n) gives thread t. The
\* read takes no lock: while another thread is inside tables.insert it is a
\* data race, whose outcome is any entry, no entry, or a crash.
LookupOutcomes(t, log_n) ==
    IF Inserting(t)
    THEN {Miss, Abort}
         \cup {Hit(x) : x \in Range(cacheCell.tables)}
         \cup {Hit(cacheThreads[u].temp) :
                   u \in {v \in Threads \ {t} : cacheThreads[v].pc = "insert"}}
    ELSE IF cacheCell.set /\ log_n \in DOMAIN cacheCell.tables
    THEN {Hit(cacheCell.tables[log_n])}
    ELSE {Miss}

\* get_ntt_table: if let Some(tables) = NTT_TABLE.get() { tables.get(..) }
Lookup(t) ==
    /\ cacheThreads[t].pc = "lookup"
    /\ \E r \in LookupOutcomes(t, cacheThreads[t].log_ns[1]) :
         cacheThreads' = [cacheThreads EXCEPT ![t] =
             IF r.kind = "Hit"
             THEN [@ EXCEPT !.pc = "idle",
                            !.ret = [kind |-> "Ok", table |-> r.table]]
             ELSE IF r.kind = "Miss" THEN [@ EXCEPT !.pc = "lock"]
             ELSE [@ EXCEPT !.pc = "panicked", !.ret = Abort]]
    /\ UNCHANGED <<cacheCell, cacheMutex, cacheMade, cacheOthers>>

\* init_ntt_table entered without waiting for the holder of NTT_MUTEX
LockWithoutWaiting(t) ==
    /\ cacheThreads[t].pc = "lock"
    /\ IF cacheMutex.poisoned
       THEN /\ cacheThreads' = [cacheThreads EXCEPT ![t] =
                    [@ EXCEPT !.pc = "panicked", !.ret = Panic]]
            /\ UNCHANGED cacheMutex
       ELSE /\ cacheThreads' = [cacheThreads EXCEPT ![t] =
                    [@ EXCEPT !.pc = "match"]]
            /\ cacheMutex' = [cacheMutex EXCEPT !.holder = t]
    /\ UNCHANGED <<cacheCell, cacheMade, cacheOthers>>

\* init_ntt_table: let _g = NTT_MUTEX.lock().unwrap();
Lock(t) ==
    /\ cacheThreads[t].pc = "lock"
    /\ cacheMutex.holder = 0
    /\ IF cacheMutex.poisoned
       THEN /\ cacheThreads' = [cacheThreads EXCEPT ![t] =
                    [@ EXCEPT !.pc = "panicked", !.ret = Panic]]
            /\ UNCHANGED cacheMutex
       ELSE /\ cacheThreads' = [cacheThreads EXCEPT ![t] =
                    [@ EXCEPT !.pc = "match"]]
            /\ cacheMutex' = [cacheMutex EXCEPT !.holder = t]
    /\ UNCHANGED <<cacheCell, cacheMade, cacheOthers>>

\* match NTT_TABLE.get_mut(): the log_n still to generate, in the order the
\* HashSet gives them; before is the cache as the call found it
Match(t) ==
    /\ cacheThreads[t].pc = "match"
    /\ \E order \in Orders(IF cacheCell.set
                           THEN Range(cacheThreads[t].log_ns)
                                    \ DOMAIN cacheCell.tables
                           ELSE Range(cacheThreads[t].log_ns)) :
         cacheThreads' = [cacheThreads EXCEPT ![t] =
             [@ EXCEPT !.pc = "generate", !.order = order,
                       !.before = cacheCell,
                       !.mode = IF cacheCell.set THEN "tables" ELSE "map"]]
    /\ UNCHANGED <<cacheCell, cacheMutex, cacheMade, cacheOthers>>

\* let temp_table = Self::generate_ntt_table(log_n)?;
Generate(t) ==
    /\ cacheThreads[t].pc = "generate"
    /\ cacheThreads[t].order # <<>>
    /\ cacheMade[cacheThreads[t].order[1]] < MaxCalls * NumThreads
    /\ \E g \in CacheSamples(cacheThreads[t].order[1]) :
         \E r \in {generate_ntt_table(cacheThreads[t].order[1], g)} :
           IF r.kind = "Ok"
           THEN /\ cacheThreads' = [cacheThreads EXCEPT ![t] =
                        [@ EXCEPT !.pc = "insert",
                                  !.temp = [log_n |-> cacheThreads[t].order[1],
                                            root |-> r.table.root,
                                            made |-> cacheMade[
                                                cacheThreads[t].order[1]] + 1]]]
                /\ cacheMade' = [cacheMade EXCEPT
                                     ![cacheThreads[t].order[1]] = @ + 1]
                /\ UNCHANGED cacheMutex
           ELSE /\ cacheThreads' = [cacheThreads EXCEPT ![t] =
                        [@ EXCEPT !.pc = IF r.kind = "Panic" THEN "panicked"
                                         ELSE "idle",
                                  !.failed = TRUE,
                                  !.before = None,
                                  !.ret = r]]
                /\ cacheMutex' = [holder |-> 0,
                                  poisoned |-> r.kind = "Panic"]
                /\ UNCHANGED cacheMade
    /\ UNCHANGED <<cacheCell, cacheOthers>>

\* tables.insert(log_n, Arc::new(temp_table)), or map.insert(..)
Insert(t) ==
    /\ cacheThreads[t].pc = "insert"
    /\ LET th == cacheThreads[t]
           log_n == th.order[1]
       IN  IF th.mode = "tables"
           THEN /\ cacheCell' = [cacheCell EXCEPT !.tables =
                                     (log_n :> th.temp) @@ @]
                /\ cacheThreads' = [cacheThreads EXCEPT ![t] =
                        [@ EXCEPT !.pc = "generate", !.order = Tail(@),
                                  !.temp = None]]
           ELSE /\ cacheThreads' = [cacheThreads EXCEPT ![t] =
                        [@ EXCEPT !.pc = "generate", !.order = Tail(@),
                                  !.temp = None,
                                  !.map = (log_n :> th.temp) @@ @]]
                /\ UNCHANGED cacheCell
    /\ UNCHANGED <<cacheMutex, cacheMade, cacheOthers>>

\* where a thread goes after Ok(()) of init_ntt_table: back to the caller,
\* or on to the second lookup of get_ntt_table
AfterInit(th) ==
    IF th.op = "get_ntt_table"
    THEN [th EXCEPT !.pc = "reread", !.before = None]
    ELSE [th EXCEPT !.pc = "idle", !.before = None, !.ret = [kind |-> "Ok"]]

\* the end of the loop: NTT_TABLE.set(map) when the cell was unset, Ok(())
Publish(t) ==
    /\ cacheThreads[t].pc = "generate"
    /\ cacheThreads[t].order = <<>>
    /\ IF cacheThreads[t].mode = "map"
       THEN IF cacheCell.set
            THEN /\ cacheThreads' = [cacheThreads EXCEPT ![t] =
                         [@ EXCEPT !.pc = "idle", !.before = None,
                                   !.ret = [kind |-> "Err",
                                            err |-> "NTTTableError"]]]
                 /\ UNCHANGED cacheCell
            ELSE /\ cacheCell' = [set |-> TRUE,
                                  tables |-> cacheThreads[t].map]
                 /\ cacheThreads' = [cacheThreads EXCEPT ![t] =
                         AfterInit(@)]
       ELSE /\ cacheThreads' = [cacheThreads EXCEPT ![t] = AfterInit(@)]
            /\ UNCHANGED cacheCell
    /\ cacheMutex' = [cacheMutex EXCEPT !.holder = 0]
    /\ UNCHANGED <<cacheMade, cacheOthers>>

\* get_ntt_table: NTT_TABLE.get().unwrap().get(&log_n).unwrap()
Reread(t) ==
    /\ cacheThreads[t].pc = "reread"
    /\ \E r \in LookupOutcomes(t, cacheThreads[t].log_ns[1]) :
         cacheThreads' = [cacheThreads EXCEPT ![t] =
             IF r.kind = "Hit"
             THEN [@ EXCEPT !.pc = "idle",
                            !.ret = [kind |-> "Ok", table |-> r.table]]
             ELSE IF r.kind = "Miss"
             THEN [@ EXCEPT !.pc = "panicked", !.ret = Panic]
             ELSE [@ EXCEPT !.pc = "panicked", !.ret = Abort]]
    /\ UNCHANGED <<cacheCell, cacheMutex, cacheMade, cacheOthers>>

NextCache ==
    \E t \in Threads :
        \/ CallGet(t) \/ CallInit(t) \/ Lookup(t) \/ Lock(t) \/ Match(t)
        \/ Generate(t) \/ Insert(t) \/ Publish(t) \/ Reread(t)

SpecCache == InitCache /\ [][NextCache]_vars

\* thread t has come back from a get_ntt_table call, or died in it
GetEnded(t) ==
    /\ cacheThreads[t].op = "get_ntt_table"
    /\ cacheThreads[t].pc \in {"idle", "panicked"}

\* C5: every access to the table cache is made under the lock of the
\* field: no thread is inside a lookup of get_ntt_table while another
\* thread is inside an insertion of init_ntt_table.
C5_LookupUnderLock ==
    \A t \in Threads :
        cacheThreads[t].pc \in {"lookup", "reread"} =>
            /\ cacheMutex.holder = t
            /\ ~Inserting(t)

\* C6: under every interleaving of get_ntt_table and init_ntt_table calls
\* the table of a log_n is generated at most once.
C6_GeneratedOnce == \A l \in DOMAIN cacheMade : cacheMade[l] <= 1

\* C7: the cache only grows, so every successful get_ntt_table(log_n)
\* returns the one table the cache holds for log_n.
C7_SameTable ==
    \A t \in Threads :
        (GetEnded(t) /\ cacheThreads[t].ret.kind = "Ok") =>
            /\ cacheCell.set
            /\ cacheThreads[t].log_ns[1] \in DOMAIN cacheCell.tables
            /\ cacheCell.tables[cacheThreads[t].log_ns[1]]
                   = cacheThreads[t].ret.table

\* C19: a get_ntt_table(log_n) for a log_n whose 2N does not divide p - 1,
\* or whose root search found no primitive root among its candidates,
\* returns the NoPrimitiveRoot error: it ends in no other way, returns no
\* table, and no table is cached for a log_n that has no root.
C19_NoPrimitiveRootReturned ==
    \A t \in Threads :
        (GetEnded(t)
         /\ (~HasRoot(cacheThreads[t].log_ns[1]) \/ cacheThreads[t].failed))
        => /\ cacheThreads[t].ret = NoPrimitiveRoot
           /\ ~HasRoot(cacheThreads[t].log_ns[1]) =>
                  cacheThreads[t].log_ns[1] \notin DOMAIN cacheCell.tables

\* ------------------------------------------------------------------------
\* Serialization (bfv: ciphertext.rs, publickey.rs, secretkey.rs)
\* ------------------------------------------------------------------------
\* u32::to_le_bytes
to_le_bytes(x) ==
    <<x % 256, (x \div 256) % 256, (x \div 65536) % 256, x \div 16777216>>

\* u32::to_be_bytes, CipherField::to_bytes
to_be_bytes(x) ==
    <<x \div 16777216, (x \div 65536) % 256, (x \div 256) % 256, x % 256>>

\* u32::from_be_bytes, CipherField::from_bytes: the word is taken as it is
from_be_bytes(v) == ((v[1] * 256 + v[2]) * 256 + v[3]) * 256 + v[4]

RECURSIVE Extend(_, _, _)
\* bytes.extend(f(item)) for the items from position i on
Extend(items, f(_), i) ==
    IF i > Len(items) THEN <<>>
    ELSE f(items[i]) \o Extend(items, f, i + 1)

\* bytes.chunks_exact(4): the whole chunks, a shorter rest is left out
chunks_exact(bytes) ==
    [k \in 1..(Len(bytes) \div 4) |-> SubSeq(bytes, 4 * k - 3, 4 * k)]

\* BFVCiphertext::to_vec and BFVPublicKey::to_vec: |len0,len1|data0,data1|
pair_to_vec(self) ==
    to_be_bytes(Len(self[1])) \o to_be_bytes(Len(self[2]))
        \o Extend(self[1], to_be_bytes, 1) \o Extend(self[2], to_be_bytes, 1)

\* BFVCiphertext::from_vec and BFVPublicKey::from_vec; iter.next().unwrap()
\* panics when the chunks run out
pair_from_vec(bytes) ==
    LET chunks == chunks_exact(bytes)
    IN  IF Len(chunks) < 2 THEN Panic
        ELSE LET len0 == from_be_bytes(chunks[1])
                 len1 == from_be_bytes(chunks[2])
             IN  IF Len(chunks) - 2 < len0 \/ Len(chunks) - 2 - len0 < len1
                 THEN Panic
                 ELSE [kind |-> "Ok",
                       value |->
                           <<[i \in 1..len0 |-> from_be_bytes(chunks[2 + i])],
                             [i \in 1..len1 |->
                                  from_be_bytes(chunks[2 + len0 + i])]>>]

\* BFVSecretKey::to_vec
secretkey_to_vec(self) == Extend(self, to_be_bytes, 1)

\* BFVSecretKey::from_vec
secretkey_from_vec(bytes) ==
    LET chunks == chunks_exact(bytes)
    IN  [kind |-> "Ok",
         value |-> [i \in 1..Len(chunks) |-> from_be_bytes(chunks[i])]]

\* the polynomials have at most MaxCoeffs coefficients
MaxCoeffs == 2

\* the words the coefficients are drawn from: a coefficient is a raw word
\* and need not be canonical
SerialWords == {0, 258, MODULUS - 1, 2147483647}

SerialPolys == UNION {VectorsOver(SerialWords, n) : n \in 0..MaxCoeffs}

InitSerial ==
    /\ \/ \E c \in SerialPolys \X SerialPolys :
            \E ty \in {"BFVCiphertext", "BFVPublicKey"} :
                fnArgs = [type |-> ty, value |-> c]
       \/ \E sk \in SerialPolys :
            fnArgs = [type |-> "BFVSecretKey", value |-> sk]
    /\ fnResult = None
    /\ fnState = "value"
    /\ FnOthersIdle

CiphertextToVec ==
    /\ fnState = "value"
    /\ fnArgs.type = "BFVCiphertext"
    /\ fnResult' = [bytes |-> pair_to_vec(fnArgs.value)]
    /\ fnState' = "bytes"
    /\ UNCHANGED <<fnArgs, fnOthers>>

CiphertextFromVec ==
    /\ fnState = "bytes"
    /\ fnArgs.type = "BFVCiphertext"
    /\ fnResult' = [bytes |-> fnResult.bytes,
                    back |-> pair_from_vec(fnResult.bytes)]
    /\ fnState' = "read"
    /\ UNCHANGED <<fnArgs, fnOthers>>

PublicKeyToVec ==
    /\ fnState = "value"
    /\ fnArgs.type = "BFVPublicKey"
    /\ fnResult' = [bytes |-> pair_to_vec(fnArgs.value)]
    /\ fnState' = "bytes"
    /\ UNCHANGED <<fnArgs, fnOthers>>

PublicKeyFromVec ==
    /\ fnState = "bytes"
    /\ fnArgs.type = "BFVPublicKey"
    /\ fnResult' = [bytes |-> fnResult.bytes,
                    back |-> pair_from_vec(fnResult.bytes)]
    /\ fnState' = "read"
    /\ UNCHANGED <<fnArgs, fnOthers>>

SecretKeyToVec ==
    /\ fnState = "value"
    /\ fnArgs.type = "BFVSecretKey"
    /\ fnResult' = [bytes |-> secretkey_to_vec(fnArgs.value)]
    /\ fnState' = "bytes"
    /\ UNCHANGED <<fnArgs, fnOthers>>

SecretKeyFromVec ==
    /\ fnState = "bytes"
    /\ fnArgs.type = "BFVSecretKey"
    /\ fnResult' = [bytes |-> fnResult.bytes,
                    back |-> secretkey_from_vec(fnResult.bytes)]
    /\ fnState' = "read"
    /\ UNCHANGED <<fnArgs, fnOthers>>

NextSerial ==
    \/ CiphertextToVec \/ CiphertextFromVec
    \/ PublicKeyToVec \/ PublicKeyFromVec
    \/ SecretKeyToVec \/ SecretKeyFromVec

SpecSerial == InitSerial /\ [][NextSerial]_vars

\* the big-endian word in the bytes at positions at + 1 .. at + 4
BeWordAt(bytes, at) ==
    bytes[at + 1] * 16777216 + bytes[at + 2] * 65536 + bytes[at + 3] * 256
        + bytes[at + 4]

\* C21: the bytes of a ciphertext (c0, c1) or of a public key are the
\* big-endian 32-bit length of c0, that of c1, then the coefficients of c0
\* followed by those of c1 as big-endian 32-bit words; the bytes of a secret
\* key are its coefficients alone; and from_vec gives back the value that
\* to_vec was given.
C21_SerializeRoundTrip ==
    /\ (fnState \in {"bytes", "read"}
        /\ fnArgs.type \in {"BFVCiphertext", "BFVPublicKey"}) =>
           LET c == fnArgs.value
               all == c[1] \o c[2]
               bytes == fnResult.bytes
           IN  /\ Len(bytes) = 8 + 4 * Len(all)
               /\ \A i \in 1..Len(bytes) : bytes[i] \in 0..255
               /\ BeWordAt(bytes, 0) = Len(c[1])
               /\ BeWordAt(bytes, 4) = Len(c[2])
               /\ \A k \in 1..Len(all) : BeWordAt(bytes, 4 + 4 * k) = all[k]
    /\ (fnState \in {"bytes", "read"} /\ fnArgs.type = "BFVSecretKey") =>
           LET bytes == fnResult.bytes
           IN  /\ Len(bytes) = 4 * Len(fnArgs.value)
               /\ \A i \in 1..Len(bytes) : bytes[i] \in 0..255
               /\ \A k \in 1..Len(fnArgs.value) :
                      BeWordAt(bytes, 4 * k - 4) = fnArgs.value[k]
    /\ fnState = "read" =>
           fnResult.back = [kind |-> "Ok", value |-> fnArgs.value]

C21_Witness ==
    /\ fnState = "read"
    /\ fnArgs.type = "BFVCiphertext"
    /\ fnArgs.value = <<<<258>>, <<MODULUS - 1, 2147483647>>>>
    /\ fnResult.bytes = <<0, 0, 0, 1, 0, 0, 0, 2, 0, 0, 1, 2,
                          7, 224, 0, 0, 127, 255, 255, 255>>
    /\ fnResult.back.value = fnArgs.value

\* ------------------------------------------------------------------------
\* Hybrid encryption of bytes (bfv: tpke.rs)
\* ------------------------------------------------------------------------
\* the bytes of a ChaCha20Poly1305 key
KeyBytes == 32

\* the bits of a byte from the most significant one down
ByteMsb0(b) == [i \in 1..8 |-> (b \div 2 ^ (8 - i)) % 2]

\* the bits of a byte from the least significant one up
ByteLsb0(b) == [i \in 1..8 |-> (b \div 2 ^ (i - 1)) % 2]

\* itybity's into_lsb0_vec for a sequence of bytes: the bytes in order, the
\* bits of each as Bits(byte) gives them
BitsOfBytes(key, Bits(_)) ==
    [k \in 1..(8 * Len(key)) |->
         Bits(key[(k - 1) \div 8 + 1])[((k - 1) % 8) + 1]]

into_msb0_vec(key) == BitsOfBytes(key, ByteMsb0)

into_lsb0_vec(key) == BitsOfBytes(key, ByteLsb0)

\* to_poly::<N>(key)
to_poly(n, key) ==
    LET poly == into_lsb0_vec(key)
    IN  IF ~(n >= Len(poly)) THEN Panic
        ELSE [kind |-> "Ok",
              poly |-> [i \in 1..n |->
                            IF i <= Len(poly)
                            THEN (IF poly[i] = 1 THEN 1 ELSE 0)
                            ELSE 0]]

RECURSIVE ChunkValue(_, _, _)
\* for (i, &bit) in x.iter().enumerate(): value |= 1 << i where bit is ONE
ChunkValue(x, i, value) ==
    IF i >= Len(x) THEN value
    ELSE ChunkValue(x, i + 1,
                    IF At(x, i) = 1 THEN value + 2 ^ i ELSE value)

\* to_bits(poly); split_at(256) panics on a shorter polynomial
to_bits(poly) ==
    IF Len(poly) < 8 * KeyBytes THEN Panic
    ELSE [kind |-> "Ok",
          key |-> [k \in 1..KeyBytes |->
                       ChunkValue(SubSeq(poly, 8 * k - 7, 8 * k), 0, 0)]]

\* ChaCha20Poly1305 encrypt: what the box holds, and under which key
aead_encrypt(key, nonce, m) == [key |-> key, nonce |-> nonce, m |-> m]

\* ChaCha20Poly1305 decrypt(..).unwrap(): the tag fails under another key
aead_decrypt(key, nonce, c2) ==
    IF c2.key = key /\ c2.nonce = nonce
    THEN [kind |-> "Ok", m |-> c2.m]
    ELSE Panic

\* keys whose byte at position i is (a * i + b) mod 256
SymKeys ==
    {[i \in 1..KeyBytes |-> (a * i + b) % 256] :
         a \in {0, 1, 37, 255}, b \in {0, 1, 128, 255}}

Payloads == {<<>>, <<116, 104, 105, 115>>}

\* what the decryption of the key ciphertext can differ by: nothing, or
\* the coefficient at a position replaced by a value
Damages == {<<0, 0>>, <<1, 0>>, <<1, 1>>, <<8, 2>>, <<256, 0>>, <<256, 1>>,
            <<257, 1>>}

InitBytes ==
    /\ \E key \in SymKeys, m \in Payloads :
           fnArgs = [sym_key |-> key, nonce |-> 7, m |-> m]
    /\ fnResult = None
    /\ fnState = "generated"
    /\ FnOthersIdle

\* encrypt_bytes: c1 is the encryption of the key polynomial
EncryptBytes ==
    /\ fnState = "generated"
    /\ LET key == to_poly(DIMENSION_N, fnArgs.sym_key)
       IN  IF key.kind = "Panic"
           THEN fnResult' = Panic /\ fnState' = "panicked"
           ELSE /\ fnResult' = [key |-> key.poly,
                                nonce |-> fnArgs.nonce,
                                c2 |-> aead_encrypt(fnArgs.sym_key,
                                                    fnArgs.nonce, fnArgs.m)]
                /\ fnState' = "sealed"
    /\ UNCHANGED <<fnArgs, fnOthers>>

\* decrypt_bytes; ThresholdPKE::decrypt returns the key polynomial, or a
\* polynomial that differs from it when the noise was too large
DecryptBytes ==
    /\ fnState = "sealed"
    /\ \E d \in Damages :
         LET key == [i \in 1..Len(fnResult.key) |->
                         IF i = d[1] THEN d[2] ELSE fnResult.key[i]]
             sym_key == to_bits(key)
         IN  /\ fnResult' =
                     [key |-> fnResult.key,
                      decrypted |-> key,
                      sym_key |-> sym_key,
                      out |-> IF sym_key.kind = "Panic" THEN Panic
                              ELSE aead_decrypt(sym_key.key, fnResult.nonce,
                                                fnResult.c2)]
             /\ fnState' = "opened"
    /\ UNCHANGED <<fnArgs, fnOthers>>

NextBytes == EncryptBytes \/ DecryptBytes

SpecBytes == InitBytes /\ [][NextBytes]_vars

\* C22: the polynomial of a 256-bit key holds one bit of the key in each of
\* its first 256 coefficients and zero in all the others, reading these
\* coefficients back as bits gives the key, and decrypt_bytes returns the
\* payload whenever the key polynomial was decrypted correctly.
C22_KeyRoundTrip ==
    /\ fnState = "sealed" =>
           /\ Len(fnResult.key) = DIMENSION_N
           /\ \A i \in 1..DIMENSION_N :
                  fnResult.key[i] =
                      IF i <= 8 * KeyBytes
                      THEN (fnArgs.sym_key[(i - 1) \div 8 + 1]
                                \div 2 ^ ((i - 1) % 8)) % 2
                      ELSE 0
    /\ (fnState = "opened" /\ fnResult.decrypted = fnResult.key) =>
           /\ fnResult.sym_key = [kind |-> "Ok", key |-> fnArgs.sym_key]
           /\ fnResult.out = [kind |-> "Ok", m |-> fnArgs.m]

C22_Witness ==
    /\ fnState = "opened"
    /\ fnResult.decrypted = fnResult.key
    /\ fnArgs.sym_key[1] = 38 /\ fnArgs.sym_key[KeyBytes] = 161
    /\ fnArgs.m # <<>>
    /\ fnResult.out = [kind |-> "Ok", m |-> fnArgs.m]

\* the error of a set that found the cell already set
NTTTableError == [kind |-> "Err", err |-> "NTTTableError"]

\* C23: under every interleaving of get_ntt_table and init_ntt_table calls
\* no caller receives NTTTableError: the cell is only set under the lock,
\* so a thread that found it unset is the one that sets it.
C23_NoTableError ==
    \A t \in Threads :
        /\ cacheThreads[t].ret # NTTTableError
        /\ (cacheThreads[t].pc \in {"generate", "insert"}
            /\ cacheThreads[t].mode = "map") => ~cacheCell.set

\* two threads entered init_ntt_table while the cell was unset; one built
\* the map and set the cell, the other then found the cell set
C23_Witness ==
    \E t \in Threads : \E u \in Threads \ {t} :
        /\ cacheThreads[t].mode = "map" /\ cacheThreads[t].pc = "idle"
        /\ cacheThreads[t].ret.kind = "Ok"
        /\ cacheThreads[t].calls = 1
        /\ cacheThreads[u].calls = 1
        /\ cacheThreads[u].mode = "tables" /\ cacheThreads[u].pc = "idle"
        /\ cacheThreads[u].ret.kind = "Ok"
        /\ cacheCell.set

\* C24: init_ntt_table is all-or-nothing: when a call returns an error
\* because a requested log_n has no table, the cache holds exactly the
\* entries it held when the call began, whether the cell was set or not.
C24_AllOrNothing ==
    [][\A t \in Threads :
           (/\ cacheThreads[t].pc = "generate"
            /\ cacheThreads[t].op = "init_ntt_table"
            /\ cacheThreads'[t].pc = "idle"
            /\ cacheThreads'[t].ret = NoPrimitiveRoot)
           => cacheCell' = cacheThreads[t].before]_vars

\* C25: a request that fails for an unsupported log_n leaves the cache and
\* its lock usable: the lock is never poisoned, and every get_ntt_table for
\* a log_n that has a root, whose root search found one and whose lookups
\* met no insertion in progress, returns a table.
C25_StillUsable ==
    /\ ~cacheMutex.poisoned
    /\ \A t \in Threads :
           (/\ GetEnded(t)
            /\ HasRoot(cacheThreads[t].log_ns[1])
            /\ ~cacheThreads[t].failed
            /\ cacheThreads[t].ret # Abort)
           => cacheThreads[t].ret.kind = "Ok"

\* ------------------------------------------------------------------------
\* Lagrange coefficients (bfv: tpke.rs)
\* ------------------------------------------------------------------------
\* combine is given at most MaxChosen indices
MaxChosen == 3

\* the values the chosen indices are drawn from
IndexValues == {0, 1, 2, 30, PlainModulus - 1}

InitLagrange ==
    /\ \E s \in 1..MaxChosen :
         \E ix \in VectorsOver(IndexValues, s) : fnArgs = ix
    /\ fnResult = None
    /\ fnState = "indices"
    /\ FnOthersIdle

GenLagrangeCoeffs ==
    /\ fnState = "indices"
    /\ fnResult' = gen_lagrange_coeffs(fnArgs)
    /\ fnState' = "coeffs"
    /\ UNCHANGED <<fnArgs, fnOthers>>

NextLagrange == GenLagrangeCoeffs

SpecLagrange == InitLagrange /\ [][NextLagrange]_vars

RECURSIVE ProductOver(_, _, _)
\* the product in F_t of term(l) over the positions l <= upto other than j
ProductOver(term(_), j, upto) ==
    IF upto = 0 THEN 1
    ELSE IF upto = j THEN ProductOver(term, j, upto - 1)
    ELSE (ProductOver(term, j, upto - 1) * term(upto)) % PlainModulus

RECURSIVE SumOver(_, _)
\* the sum in F_t of term(j) over the positions j <= upto
SumOver(term(_), upto) ==
    IF upto = 0 THEN 0
    ELSE (SumOver(term, upto - 1) + term(upto)) % PlainModulus

\* f(x) in F_t for the polynomial with the coefficients f, by powers
ValueAt(f, x) ==
    SumOver(LAMBDA k : (f[k] * ProductOver(LAMBDA l : x, 0, k - 1))
                           % PlainModulus,
            Len(f))

\* C26: for pairwise distinct non-zero chosen indices i_1..i_s the
\* coefficient lambda_j is the product over l # j of (-i_l) / (i_j - i_l),
\* and for every polynomial f of degree < s the sum of lambda_j * f(i_j)
\* is f(0).
C26_LagrangeCoeffs ==
    (fnState = "coeffs" /\ DistinctNonZero(fnArgs)) =>
        LET s == Len(fnArgs)
            lambda == fnResult.coeffs
        IN  /\ fnResult.kind = "Ok"
            /\ Len(lambda) = s
            /\ \A j \in 1..s :
                   /\ lambda[j] \in 0..(PlainModulus - 1)
                   /\ (lambda[j]
                          * ProductOver(LAMBDA l : (fnArgs[j] - fnArgs[l]
                                                       + PlainModulus)
                                                   % PlainModulus, j, s))
                          % PlainModulus
                      = ProductOver(LAMBDA l : (PlainModulus - fnArgs[l])
                                                   % PlainModulus, j, s)
            /\ \A f \in VectorsOver({0, 1, PlainModulus - 1}, s) :
                   SumOver(LAMBDA j : (lambda[j] * ValueAt(f, fnArgs[j]))
                                          % PlainModulus, s)
                       = f[1]

C26_Witness ==
    /\ fnState = "coeffs"
    /\ fnArgs = <<30, 1, PlainModulus - 1>>
    /\ DistinctNonZero(fnArgs)
    /\ fnResult.kind = "Ok"
    /\ \A j \in 1..3 : fnResult.coeffs[j] \notin {0, 1}

\* ------------------------------------------------------------------------
\* The layers of the forward transform
\* (algebra/src/transformation/ntt_table.rs)
\* ------------------------------------------------------------------------
\* the largest log_n whose transform is followed layer by layer
MaxLayerLogN == 2

\* values of [0, 4p) at and next to the ends of [0, p), [p, 2p), [2p, 4p)
LayerValues ==
    <<0, 1, MODULUS - 1, MODULUS, TWICE_MODULUS_INNER - 1,
      TWICE_MODULUS_INNER, 2 * TWICE_MODULUS_INNER - 1>>

\* the inputs of length n: position i holds LayerValues at a * i + b
LayerInputs(n) ==
    {Vec(n, LAMBDA i : LayerValues[((a * i + b) % Len(LayerValues)) + 1]) :
         a \in 0..(Len(LayerValues) - 1), b \in 0..(Len(LayerValues) - 1)}

InitLayers ==
    /\ \E log_n \in 0..MaxLayerLogN :
         \E a \in LayerInputs(2 ^ log_n) :
           /\ fnArgs = [table |-> TableFor(log_n), values |-> a]
           /\ fnResult = [values |-> a, x |-> log_n - 1]
    /\ fnState = "layers"
    /\ FnOthersIdle

\* one pass of `for gap in (0..log_n).rev().map(|x| 1usize << x)`
Layer ==
    /\ fnState = "layers"
    /\ fnResult.x >= 0
    /\ fnResult' = [values |-> ForwardLayer(fnArgs.table, fnResult.values,
                                            2 ^ fnResult.x),
                    x |-> fnResult.x - 1]
    /\ UNCHANGED <<fnArgs, fnState, fnOthers>>

\* values.iter_mut().for_each(ntt_normalize_assign)
Normalize ==
    /\ fnState = "layers"
    /\ fnResult.x < 0
    /\ fnResult' = [values |-> NttNormalize(fnResult.values), x |-> -1]
    /\ fnState' = "normalized"
    /\ UNCHANGED <<fnArgs, fnOthers>>

NextLayers == Layer \/ Normalize

SpecLayers == InitLayers /\ [][NextLayers]_vars

\* C27: with inputs in [0, 4p) every coefficient stored after every layer
\* of the forward transform is below 4p, and after the normalization every
\* coefficient is canonical; the layers followed by the normalization are
\* transform_slice.
C27_LayersBelow4p ==
    (\A i \in 1..Len(fnArgs.values) :
         fnArgs.values[i] \in 0..(4 * MODULUS - 1)) =>
        /\ fnState = "layers" =>
               \A i \in 1..Len(fnResult.values) :
                   fnResult.values[i] \in 0..(4 * MODULUS - 1)
        /\ fnState = "normalized" =>
               /\ \A i \in 1..Len(fnResult.values) :
                      fnResult.values[i] \in 0..(MODULUS - 1)
               /\ fnResult.values
                      = transform_slice(fnArgs.table, fnArgs.values)

\* the last layer of a transform of four coefficients left a coefficient
\* in [2p, 4p), and the normalization is still to come
C27_Witness ==
    /\ fnState = "layers"
    /\ Len(fnArgs.values) = 4
    /\ fnResult.x < 0
    /\ \E i \in 1..4 : fnResult.values[i] >= TWICE_MODULUS_INNER
    /\ \A i \in 1..4 : fnResult.values[i] < 4 * MODULUS

\* ------------------------------------------------------------------------
\* Checked construction of field elements (algebra_derive: field.rs)
\* ------------------------------------------------------------------------
\* value < MODULUS for a word value
BelowModulus(value) == value[2] < Limb \div 2 /\ Val(value) < MODULUS

\* Field::checked_new(value): the word of the new element
checked_new(value) ==
    IF BelowModulus(value) THEN value
    ELSE Word(reduce_word(value, CipherBarrett))

\* Field::checked_set(&mut self, value): the word of self after the call;
\* the else branch is self.0.reduce_assign(MODULUS)
checked_set(self, value) ==
    IF BelowModulus(value) THEN value
    ELSE Word(reduce_word(self, CipherBarrett))

InitChecked ==
    /\ \E x \in EdgeWords, v \in EdgeWords \cup {Word(5), Word(MODULUS + 3)} :
         \E op \in {"checked_new", "checked_set"} :
           fnArgs = [op |-> op, self |-> x, value |-> v]
    /\ fnResult = None
    /\ fnState = "args"
    /\ FnOthersIdle

CheckedNew ==
    /\ fnState = "args" /\ fnArgs.op = "checked_new"
    /\ fnResult' = checked_new(fnArgs.value)
    /\ fnState' = "done"
    /\ UNCHANGED <<fnArgs, fnOthers>>

CheckedSet ==
    /\ fnState = "args" /\ fnArgs.op = "checked_set"
    /\ fnResult' = checked_set(fnArgs.self, fnArgs.value)
    /\ fnState' = "done"
    /\ UNCHANGED <<fnArgs, fnOthers>>

NextChecked == CheckedNew \/ CheckedSet

SpecChecked == InitChecked /\ [][NextChecked]_vars

\* C28: after x.checked_set(v) the element x holds v mod p, whatever it
\* held before, which is the value checked_new(v) produces.
C28_CheckedSet ==
    fnState = "done" =>
        /\ fnResult = Word(WordMod(fnArgs.value, MODULUS))
        /\ fnArgs.op = "checked_set" => fnResult = checked_new(fnArgs.value)

\* ------------------------------------------------------------------------
\* Decomposition into a destination (algebra_derive: field.rs)
\* ------------------------------------------------------------------------
RECURSIVE DecomposeAtLoop(_, _, _, _)
\* for v in destination, from position i on: the loop breaks once temp is
\* 0 and leaves the positions it has not reached as they were
DecomposeAtLoop(temp, basis, destination, i) ==
    IF i > Len(destination) THEN destination
    ELSE IF temp = 0 THEN destination
    ELSE DecomposeAtLoop(temp \div (2 ^ basis.bits), basis,
                         [destination EXCEPT ![i] = temp % (basis.mask + 1)],
                         i + 1)

\* self.decompose_at(basis, destination): the destination after the call
decompose_at(self, basis, destination) ==
    DecomposeAtLoop(self, basis, destination, 1)

\* what every position of the destination holds before the call
DestinationFills == {0, 7, MODULUS - 1}

InitDecomposeAt ==
    /\ \E bits \in 1..MaxBasisBits :
         \E v \in DecomposeValues, fill \in DestinationFills :
           fnArgs = [value |-> v, bits |-> bits,
                     destination |->
                         [i \in 1..Basis(bits).decompose_len |-> fill]]
    /\ fnResult = None
    /\ fnState = "args"
    /\ FnOthersIdle

DecomposeAt ==
    /\ fnState = "args"
    /\ fnResult' = decompose_at(fnArgs.value, Basis(fnArgs.bits),
                                fnArgs.destination)
    /\ fnState' = "done"
    /\ UNCHANGED <<fnArgs, fnOthers>>

NextDecomposeAt == DecomposeAt

SpecDecomposeAt == InitDecomposeAt /\ [][NextDecomposeAt]_vars

\* C29: decompose_at(v, basis, destination) leaves a destination of length
\* decompose_len holding the digits decompose(v, basis) returns, with zeros
\* after the last digit of v, whatever the destination held before.
C29_DecomposeAt ==
    fnState = "done" =>
        fnResult = decompose(fnArgs.value, Basis(fnArgs.bits))

\* ------------------------------------------------------------------------
\* Dense multilinear extensions
\* (algebra/src/polynomial/multivariate/multilinear/dense.rs)
\* ------------------------------------------------------------------------
\* DenseMultilinearExtension::from_evaluations_vec
from_evaluations_vec(num_vars, evaluations) ==
    IF Len(evaluations) # 2 ^ num_vars THEN Panic
    ELSE [kind |-> "Ok", num_vars |-> num_vars, evaluations |-> evaluations]

\* Zero::zero
mle_zero == [kind |-> "Ok", num_vars |-> 0, evaluations |-> <<0>>]

\* Zero::is_zero
is_zero(self) == self.num_vars = 0 /\ At(self.evaluations, 0) = 0

\* self.iter().zip(rhs.iter()).map(op).collect()
ZipMap(self, rhs, op(_, _)) ==
    LET len == IF Len(self.evaluations) <= Len(rhs.evaluations)
               THEN Len(self.evaluations) ELSE Len(rhs.evaluations)
    IN  Vec(len, LAMBDA i : op(At(self.evaluations, i),
                               At(rhs.evaluations, i)))

\* Add for &DenseMultilinearExtension
mle_add(self, rhs) ==
    IF is_zero(rhs) THEN self
    ELSE IF is_zero(self) THEN rhs
    ELSE IF self.num_vars # rhs.num_vars THEN Panic
    ELSE from_evaluations_vec(
             self.num_vars,
             ZipMap(self, rhs, LAMBDA a, b : add_reduce(a, b, MODULUS)))

\* Sub for &DenseMultilinearExtension
mle_sub(self, rhs) ==
    IF is_zero(rhs) THEN self
    ELSE IF is_zero(self) THEN rhs
    ELSE IF self.num_vars # rhs.num_vars THEN Panic
    ELSE from_evaluations_vec(
             self.num_vars,
             ZipMap(self, rhs, LAMBDA a, b : sub_reduce(a, b, MODULUS)))

\* one round of fix_variables: poly[b] = left + r * (right - left) for the
\* first `count` positions; the positions after them are no longer read
FixRound(poly, r, count) ==
    Vec(count, LAMBDA b :
        add_reduce(At(poly, 2 * b),
                   mul_reduce(r, sub_reduce(At(poly, 2 * b + 1),
                                            At(poly, 2 * b), MODULUS),
                              CipherBarrett),
                   MODULUS))

RECURSIVE FixRounds(_, _, _, _)
\* for i in i..dim + 1
FixRounds(poly, partial_point, nv, i) ==
    IF i > Len(partial_point) THEN poly
    ELSE FixRounds(FixRound(poly, partial_point[i], 2 ^ (nv - i)),
                   partial_point, nv, i + 1)

\* fix_variables(partial_point)
fix_variables(self, partial_point) ==
    IF ~(Len(partial_point) <= self.num_vars) THEN Panic
    ELSE from_evaluations_vec(
             self.num_vars - Len(partial_point),
             FixRounds(self.evaluations, partial_point, self.num_vars, 1))

\* evaluate(point)
mle_evaluate(self, point) ==
    IF Len(point) # self.num_vars THEN Panic
    ELSE [kind |-> "Ok",
          value |-> At(fix_variables(self, point).evaluations, 0)]

\* the extensions have at most MaxVars variables
MaxVars == 2

\* the evaluations are drawn from MleValues
MleValues == {0, 1, MODULUS - 1}

\* zero(), every extension of fewer than MaxVars variables, and those of
\* MaxVars variables that repeat a pair
MlePolys ==
    UNION {{from_evaluations_vec(nv, e) :
                e \in VectorsOver(MleValues, 2 ^ nv)} :
               nv \in 0..(MaxVars - 1)}
    \cup {from_evaluations_vec(MaxVars, e) :
              e \in Patterned(MleValues \X MleValues, 2 ^ MaxVars)}

MlePoints(nv) == VectorsOver({0, 2, MODULUS - 1}, nv)

InitMle ==
    /\ \E a \in MlePolys, b \in MlePolys :
         \E op \in {"add", "sub"} : fnArgs = [op |-> op, a |-> a, b |-> b]
    /\ fnResult = None
    /\ fnState = "args"
    /\ FnOthersIdle

\* &a + &b
MleAdd ==
    /\ fnState = "args" /\ fnArgs.op = "add"
    /\ fnResult' = [poly |-> mle_add(fnArgs.a, fnArgs.b)]
    /\ fnState' = "result"
    /\ UNCHANGED <<fnArgs, fnOthers>>

\* &a - &b
MleSub ==
    /\ fnState = "args" /\ fnArgs.op = "sub"
    /\ fnResult' = [poly |-> mle_sub(fnArgs.a, fnArgs.b)]
    /\ fnState' = "result"
    /\ UNCHANGED <<fnArgs, fnOthers>>

\* (..).evaluate(&point)
MleEvaluate ==
    /\ fnState = "result"
    /\ fnResult.poly.kind = "Ok"
    /\ \E point \in MlePoints(fnResult.poly.num_vars) :
         fnResult' = [poly |-> fnResult.poly, point |-> point,
                      out |-> mle_evaluate(fnResult.poly, point)]
    /\ fnState' = "evaluated"
    /\ UNCHANGED <<fnArgs, fnOthers>>

NextMle == MleAdd \/ MleSub \/ MleEvaluate

SpecMle == InitMle /\ [][NextMle]_vars

RECURSIVE MleTerm(_, _, _)
\* the product over the variables i <= upto of point[i] where bit i - 1 of
\* idx is set and of 1 - point[i] where it is not, in F_p
MleTerm(idx, point, upto) ==
    IF upto = 0 THEN 1
    ELSE MulMod(MleTerm(idx, point, upto - 1),
                IF (idx \div 2 ^ (upto - 1)) % 2 = 1 THEN point[upto]
                ELSE (1 + MODULUS - point[upto]) % MODULUS,
                MODULUS)

RECURSIVE MleSum(_, _, _)
\* the sum over idx < upto of evaluations[idx] * MleTerm(idx), in F_p
MleSum(evaluations, point, upto) ==
    IF upto = 0 THEN 0
    ELSE (MleSum(evaluations, point, upto - 1)
              + MulMod(At(evaluations, upto - 1),
                       MleTerm(upto - 1, point, Len(point)), MODULUS))
             % MODULUS

\* the value of the extension at the point; the constant extension of no
\* variables has its value at every point
MleValueAt(self, point) ==
    IF self.num_vars = 0 THEN At(self.evaluations, 0)
    ELSE MleSum(self.evaluations, point, Len(self.evaluations))

\* C30: for dense multilinear extensions a and b of the same number of
\* variables, or with one of them zero(), &a + &b evaluates to
\* a(point) + b(point) and &a - &b to a(point) - b(point) at every point.
C30_MleArithmetic ==
    (/\ fnState = "evaluated"
     /\ \/ fnArgs.a.num_vars = fnArgs.b.num_vars
        \/ fnArgs.a = mle_zero
        \/ fnArgs.b = mle_zero) =>
        /\ fnResult.out.kind = "Ok"
        /\ fnResult.out.value =
               IF fnArgs.op = "add"
               THEN (MleValueAt(fnArgs.a, fnResult.point)
                         + MleValueAt(fnArgs.b, fnResult.point)) % MODULUS
               ELSE (MleValueAt(fnArgs.a, fnResult.point) + MODULUS
                         - MleValueAt(fnArgs.b, fnResult.point)) % MODULUS

Init ==
    \/ InitNTT \/ InitBFV \/ InitLinear \/ InitPolicy \/ InitTPKE
    \/ InitMul \/ InitBarrett \/ InitShoup \/ InitInverse
    \/ InitPrime \/ InitMonomial \/ InitDecompose \/ InitRoot
    \/ InitCache
    \/ InitSerial
    \/ InitBytes
    \/ InitLagrange
    \/ InitLayers
    \/ InitChecked
    \/ InitDecomposeAt
    \/ InitMle

Next ==
    \/ NextNTT \/ NextBFV \/ NextLinear \/ NextPolicy \/ NextTPKE
    \/ NextMul \/ NextBarrett \/ NextShoup \/ NextInverse
    \/ NextPrime \/ NextMonomial \/ NextDecompose \/ NextRoot
    \/ NextCache
    \/ NextSerial
    \/ NextBytes
    \/ NextLagrange
    \/ NextLayers
    \/ NextChecked
    \/ NextDecomposeAt
    \/ NextMle

Spec == Init /\ [][Next]_vars
====
